---- MODULE Spec2Model ----
(***************************************************************************)
(* spannerdiff: Diff from the two DDL texts to the emitted statements: the  *)
(* definition sets (newDefinitions), the migration planner (drops / alters *)
(* / adds passes with the onDependencyChange cascade) and the operation    *)
(* orderer (sortOperations / topologicalSort), over bounded families of    *)
(* inputs.                                                                 *)
(***************************************************************************)
EXTENDS Integers, Sequences, FiniteSets, TLC

VARIABLES input, base, target, phase, visited, states, dependOn, crashed, output, err

vars == <<input, base, target, phase, visited, states, dependOn, crashed, output, err>>

(***************************************************************************)
(* Bounds of the model.                                                    *)
(***************************************************************************)
\* how many objects of the reference schema the two sides may differ in, taken
\* together; an empty side counts as one
MaxEdits == 2
\* depth of the updateState -> onDependencyChange -> updateState recursion
\* after which the run is recorded as not returning
MaxDepth == 4
\* how many statements the two DDL texts of the statement family hold together
MaxStatements == 3
\* how many privileges one GRANT statement of the grant family lists
MaxPrivileges == 2

\* GRANT statements on one side in the grant-statement family
MaxGrantStatements == 2

(***************************************************************************)
(* Generic helpers.                                                        *)
(***************************************************************************)
SeqToSet(s) == {s[i] : i \in 1..Len(s)}

InSeq(x, s) == \E i \in 1..Len(s) : s[i] = x

RECURSIVE FilterSeq(_, _)
\* the subsequence of s whose elements are in the set keep
FilterSeq(s, keep) ==
  IF s = <<>> THEN <<>>
  ELSE IF Head(s) \in keep THEN <<Head(s)>> \o FilterSeq(Tail(s), keep)
       ELSE FilterSeq(Tail(s), keep)

\* all orderings of a finite set, as sequences without repetition
Orderings(S) ==
  {s \in [1..Cardinality(S) -> S] : \A i, j \in 1..Cardinality(S) : i # j => s[i] # s[j]}

IndexOf(x, s) == CHOOSE i \in 1..Len(s) : s[i] = x

(***************************************************************************)
(* Identifiers.  ID() strings of the objects of the model's universe.      *)
(***************************************************************************)
TableID(name) == IF name = "T1" THEN "Table(T1)"
                 ELSE IF name = "V1" THEN "Table(V1)"
                 ELSE "Table(V2)"

ColumnID(tableID, name) == IF name = "C1" THEN "Table(T1):Column(C1)"
                           ELSE "Table(T1):Column(C2)"

IndexID(name) == "Index(IDX1)"

ViewID(name) == IF name = "T1" THEN "View(T1)"
                ELSE IF name = "V1" THEN "View(V1)"
                ELSE "View(V2)"

ChangeStreamID(name) == "ChangeStream(S1)"

SequenceID(name) == "Sequence(SEQ1)"

RoleID(name) == IF name = "R1" THEN "Role(R1)" ELSE "Role(R2)"

GrantID(roleID, targetID) == IF roleID = "Role(R1)" THEN "Grant(Role(R1)):Table(T1)"
                             ELSE "Grant(Role(R2)):Table(T1)"

DatabaseID(name) == "Database(D1)"

\* the identifiers that can carry a definition, in the order of their ID() strings
IdOrder == << ChangeStreamID("S1"), DatabaseID("D1"), GrantID(RoleID("R1"), TableID("T1")),
              GrantID(RoleID("R2"), TableID("T1")), IndexID("IDX1"), SequenceID("SEQ1"),
              TableID("T1"), ColumnID(TableID("T1"), "C1"), ColumnID(TableID("T1"), "C2"),
              ViewID("V1"), ViewID("V2") >>

Ids == SeqToSet(IdOrder)

\* cmp.Compare(i.id.ID(), j.id.ID()) on the universe: position in IdOrder
IDLess(a, b) == IndexOf(a, IdOrder) < IndexOf(b, IdOrder)

(***************************************************************************)
(* Definitions: one record per schema object, wrapping its AST node.       *)
(* All nodes share one record shape; a kind uses the fields it has.        *)
(***************************************************************************)
NoNode == [name |-> "", pk |-> 0, rdp |-> 0, syn |-> <<>>, cons |-> <<>>, cols |-> <<>>,
           typ |-> "", nn |-> FALSE, sem |-> [kind |-> "", expr |-> 0],
           table |-> "", keys |-> <<>>, storing |-> <<>>,
           query |-> 0, from |-> <<>>,
           hasFor |-> FALSE, forAll |-> FALSE, forTables |-> <<>>, options |-> 0,
           ifNotExists |-> FALSE,
           roles |-> <<>>, privs |-> <<>>]

\* ColumnDef.DefaultSemantics: nil, a ColumnDefaultExpr or a GeneratedColumnExpr
NoSemantics == [kind |-> "", expr |-> 0]

ColumnDefaultExpr(e) == [kind |-> "default", expr |-> e]

GeneratedColumnExpr(e) == [kind |-> "generated", expr |-> e]

\* the nil definition (an identifier absent on one side)
NoDef == [kind |-> "nil", id |-> "", node |-> NoNode]

IsNil(d) == d.kind = "nil"

newTable(ct) == [kind |-> "table", id |-> TableID(ct.name), node |-> ct]

newColumn(tbl, col) ==
  [kind |-> "column", id |-> ColumnID(tbl.id, col.name),
   node |-> [NoNode EXCEPT !.name = col.name, !.typ = col.typ, !.nn = col.nn,
                           !.sem = col.sem, !.options = col.options,
                           !.table = tbl.node.name]]

newIndex(ci) == [kind |-> "index", id |-> IndexID(ci.name), node |-> ci]

newView(cv) == [kind |-> "view", id |-> ViewID(cv.name), node |-> cv]

newChangeStream(ccs) == [kind |-> "changeStream", id |-> ChangeStreamID(ccs.name), node |-> ccs]

newSequence(cs) == [kind |-> "sequence", id |-> SequenceID(cs.name), node |-> cs]

RECURSIVE GrantsOf(_, _)
\* one grant per role of the statement, each holding that role alone
GrantsOf(g, roles) ==
  IF roles = <<>> THEN <<>>
  ELSE <<[kind |-> "grant", id |-> GrantID(RoleID(Head(roles)), TableID(g.table)),
          node |-> [g EXCEPT !.roles = <<Head(roles)>>]]>>
         \o GrantsOf(g, Tail(roles))

\* newGrant, for a grant on one table: the statement exploded by role
newGrant(g) == GrantsOf(g, g.roles)

newDatabase(ad) == [kind |-> "database", id |-> DatabaseID(ad.name), node |-> ad]

(***************************************************************************)
(* dependsOn() of each kind.                                               *)
(***************************************************************************)
RECURSIVE ColumnIDs(_, _)
ColumnIDs(tableID, names) ==
  IF names = <<>> THEN <<>>
  ELSE <<ColumnID(tableID, Head(names))>> \o ColumnIDs(tableID, Tail(names))

RECURSIVE KeyColumnIDs(_, _)
KeyColumnIDs(tableID, keys) ==
  IF keys = <<>> THEN <<>>
  ELSE <<ColumnID(tableID, Head(keys).name)>> \o KeyColumnIDs(tableID, Tail(keys))

\* no table of the universe is in a named schema
TableDependsOn(d) == <<>>

ColumnDependsOn(d) == <<TableID(d.node.table)>>

IndexDependsOn(d) ==
  KeyColumnIDs(TableID(d.node.table), d.node.keys)
    \o ColumnIDs(TableID(d.node.table), d.node.storing)
    \o <<TableID(d.node.table)>>

RECURSIVE ViewDependsOnNames(_)
ViewDependsOnNames(names) ==
  IF names = <<>> THEN <<>>
  ELSE <<TableID(Head(names)), ViewID(Head(names))>> \o ViewDependsOnNames(Tail(names))

ViewDependsOn(d) == ViewDependsOnNames(d.node.from)

RECURSIVE ForTablesIDs(_)
ForTablesIDs(tables) ==
  IF tables = <<>> THEN <<>>
  ELSE <<TableID(Head(tables).table)>>
         \o ColumnIDs(TableID(Head(tables).table), Head(tables).cols)
         \o ForTablesIDs(Tail(tables))

ChangeStreamDependsOn(d) ==
  IF ~d.node.hasFor \/ d.node.forAll THEN <<>> ELSE ForTablesIDs(d.node.forTables)

RECURSIVE PrivilegeColumnIDs(_, _)
PrivilegeColumnIDs(tableID, privs) ==
  IF privs = <<>> THEN <<>>
  ELSE ColumnIDs(tableID, Head(privs).cols) \o PrivilegeColumnIDs(tableID, Tail(privs))

GrantDependsOn(d) ==
  <<RoleID(d.node.roles[1]), TableID(d.node.table)>>
    \o PrivilegeColumnIDs(TableID(d.node.table), d.node.privs)

DependsOn(d) ==
  CASE d.kind = "table" -> TableDependsOn(d)
    [] d.kind = "column" -> ColumnDependsOn(d)
    [] d.kind = "index" -> IndexDependsOn(d)
    [] d.kind = "view" -> ViewDependsOn(d)
    [] d.kind = "changeStream" -> ChangeStreamDependsOn(d)
    [] d.kind = "grant" -> GrantDependsOn(d)
    [] d.kind = "database" -> <<>>
    [] d.kind = "sequence" -> <<>>

(***************************************************************************)
(* newDefinitions: the definition set of one side, a map from every        *)
(* identifier of the universe to its definition or to NoDef, or the error  *)
(* that building it returns.                                               *)
(***************************************************************************)
RECURSIVE HasPrivilege(_, _)
\* the privilege is granted without a column list
HasPrivilege(privs, p) ==
  IF privs = <<>> THEN FALSE
  ELSE (Head(privs).priv = p /\ Head(privs).cols = <<>>) \/ HasPrivilege(Tail(privs), p)

RECURSIVE Unique(_, _)
Unique(names, seen) ==
  IF names = <<>> THEN <<>>
  ELSE IF Head(names) \in seen THEN Unique(Tail(names), seen)
       ELSE <<Head(names)>> \o Unique(Tail(names), seen \cup {Head(names)})

RECURSIVE PrivilegeColumns(_, _)
\* the columns the privilege is granted on, first occurrence first
PrivilegeColumns(privs, p) ==
  IF privs = <<>> THEN <<>>
  ELSE Unique((IF Head(privs).priv = p THEN Head(privs).cols ELSE <<>>)
                \o PrivilegeColumns(Tail(privs), p), {})

\* the entries grant.merge rebuilds for one privilege: the bare privilege,
\* then the privilege with its columns
MergedPrivilege(privs, p) ==
  (IF HasPrivilege(privs, p) THEN <<[priv |-> p, cols |-> <<>>]>> ELSE <<>>)
    \o (IF PrivilegeColumns(privs, p) # <<>>
        THEN <<[priv |-> p, cols |-> PrivilegeColumns(privs, p)]>> ELSE <<>>)

\* a merge that keeps the receiver as it is
GrantMerge_KeepsReceiver(g, other) == g

\* grant.merge on two grants of one table to one role: the receiver with
\* the privileges of both
GrantMerge(g, other) ==
  LET privs == g.node.privs \o other.node.privs
  IN [g EXCEPT !.node.privs =
        MergedPrivilege(privs, "SELECT") \o MergedPrivilege(privs, "UPDATE")
          \o MergedPrivilege(privs, "INSERT")
          \o (IF HasPrivilege(privs, "DELETE") THEN <<[priv |-> "DELETE", cols |-> <<>>]>> ELSE <<>>)]

\* every definition merges
IsMerger_Every(def) == TRUE

\* only a grant is a merger
IsMerger(def) == def.kind = "grant"

\* the closure add of newDefinitions, on d = [all, duplicated, err]
AddDef(d, def) ==
  IF ~IsNil(d.all[def.id])
  THEN IF IsMerger(d.all[def.id])
       THEN [d EXCEPT !.all[def.id] = GrantMerge(d.all[def.id], def)]
       ELSE [d EXCEPT !.duplicated = @ \cup {def.id}]
  ELSE [d EXCEPT !.all[def.id] = def]

RECURSIVE AddAll(_, _)
\* add() for each definition of the list
AddAll(d, defs) ==
  IF defs = <<>> THEN d ELSE AddAll(AddDef(d, Head(defs)), Tail(defs))

RECURSIVE ColumnsOf(_, _)
ColumnsOf(tbl, cols) ==
  IF cols = <<>> THEN <<>>
  ELSE <<newColumn(tbl, Head(cols))>> \o ColumnsOf(tbl, Tail(cols))

\* the statements the type switch of newDefinitions has a case for
SupportedStatements ==
  {"CreateTable", "CreateIndex", "CreateView", "CreateChangeStream", "CreateSequence", "Grant",
   "AlterDatabase"}

\* the definitions one case of the type switch adds
DefsOfDDL(ddl) ==
  CASE ddl.stmt = "CreateTable" ->
         <<newTable(ddl.node)>> \o ColumnsOf(newTable(ddl.node), ddl.node.cols)
    [] ddl.stmt = "CreateIndex" -> <<newIndex(ddl.node)>>
    [] ddl.stmt = "CreateView" -> <<newView(ddl.node)>>
    [] ddl.stmt = "CreateChangeStream" -> <<newChangeStream(ddl.node)>>
    [] ddl.stmt = "CreateSequence" -> <<newSequence(ddl.node)>>
    [] ddl.stmt = "Grant" -> newGrant(ddl.node)
    [] ddl.stmt = "AlterDatabase" -> <<newDatabase(ddl.node)>>

RECURSIVE DefsOfDDLs_StopsAtUnsupported(_, _, _)
\* a loop that ends at the first unsupported statement
DefsOfDDLs_StopsAtUnsupported(d, ddls, errorOnUnsupported) ==
  IF ddls = <<>> THEN d
  ELSE IF Head(ddls).stmt \in SupportedStatements
       THEN DefsOfDDLs_StopsAtUnsupported(AddAll(d, DefsOfDDL(Head(ddls))), Tail(ddls),
                                          errorOnUnsupported)
       ELSE IF errorOnUnsupported THEN [d EXCEPT !.err = "unsupported DDL"]
            ELSE d

RECURSIVE DefsOfDDLs(_, _, _)
\* the loop of newDefinitions over the statements: an unsupported statement
\* returns at once when errorOnUnsupported is set and is passed over otherwise
DefsOfDDLs(d, ddls, errorOnUnsupported) ==
  IF ddls = <<>> THEN d
  ELSE IF Head(ddls).stmt \in SupportedStatements
       THEN DefsOfDDLs(AddAll(d, DefsOfDDL(Head(ddls))), Tail(ddls), errorOnUnsupported)
       ELSE IF errorOnUnsupported THEN [d EXCEPT !.err = "unsupported DDL"]
            ELSE DefsOfDDLs(d, Tail(ddls), errorOnUnsupported)

\* newDefinitions: [all, duplicated, err]
newDefinitions(ddls, errorOnUnsupported) ==
  LET d == DefsOfDDLs([all |-> [i \in Ids |-> NoDef], duplicated |-> {}, err |-> ""],
                      ddls, errorOnUnsupported)
  IN IF d.err = "" /\ d.duplicated # {}
     THEN [d EXCEPT !.err = "duplicated definition found"]
     ELSE d

Has(defs, id) == ~IsNil(defs[id])

Keys(defs) == {i \in Ids : Has(defs, i)}

(***************************************************************************)
(* equalNode: position-insensitive AST equality; an index key without a    *)
(* direction compares as ASC.                                              *)
(***************************************************************************)
RECURSIVE NormalizeKeys(_)
NormalizeKeys(keys) ==
  IF keys = <<>> THEN <<>>
  ELSE <<[Head(keys) EXCEPT !.dir = IF Head(keys).dir = "" THEN "ASC" ELSE Head(keys).dir]>>
         \o NormalizeKeys(Tail(keys))

equalNode(a, b) ==
  [a EXCEPT !.keys = NormalizeKeys(a.keys)] = [b EXCEPT !.keys = NormalizeKeys(b.keys)]

(***************************************************************************)
(* The schemas of the model: a reference schema and, per object, a few     *)
(* variants of its statement.  Variant 0 is the reference, 1 is "absent".  *)
(***************************************************************************)
ColumnC1 == [name |-> "C1", typ |-> "INT64", nn |-> TRUE, sem |-> NoSemantics, options |-> 0]

ColumnC2(v) == [name |-> "C2",
                typ |-> IF v = 3 THEN "INT64" ELSE "STRING",
                nn |-> (v = 2), sem |-> NoSemantics, options |-> 0]

CreateTableT1(tv, cv) ==
  [stmt |-> "CreateTable",
   node |-> [NoNode EXCEPT !.name = "T1",
                           !.pk = IF tv = 2 THEN 2 ELSE 1,
                           !.rdp = IF tv = 3 THEN 1 ELSE 0,
                           !.syn = IF tv = 4 THEN <<"A", "B">> ELSE <<>>,
                           !.cols = IF cv = 1 THEN <<ColumnC1>> ELSE <<ColumnC1, ColumnC2(cv)>>]]

CreateIndexIDX1(v) ==
  [stmt |-> "CreateIndex",
   node |-> [NoNode EXCEPT !.name = "IDX1", !.table = "T1",
                           !.keys = <<[name |-> "C1",
                                       dir |-> IF v = 2 THEN "ASC" ELSE IF v = 3 THEN "DESC" ELSE ""]>>,
                           !.storing = IF v = 4 THEN <<"C2">> ELSE <<>>]]

CreateViewV2(v) ==
  [stmt |-> "CreateView",
   node |-> [NoNode EXCEPT !.name = "V2", !.from = <<"T1">>, !.query = IF v = 2 THEN 2 ELSE 1]]

CreateViewV1(v) ==
  [stmt |-> "CreateView",
   node |-> [NoNode EXCEPT !.name = "V1", !.from = <<"V2">>, !.query = IF v = 2 THEN 2 ELSE 1]]

CreateChangeStreamS1(v) ==
  [stmt |-> "CreateChangeStream",
   node |-> [NoNode EXCEPT !.name = "S1", !.hasFor = TRUE,
                           !.forAll = (v = 2),
                           !.forTables = IF v = 2 THEN <<>> ELSE <<[table |-> "T1", cols |-> <<>>]>>,
                           !.options = IF v = 3 THEN 2 ELSE 1]]

GrantOnT1(v) ==
  [stmt |-> "Grant",
   node |-> [NoNode EXCEPT !.roles = <<"R1">>, !.table = "T1",
                           !.privs = IF v = 2
                                     THEN <<[priv |-> "SELECT", cols |-> <<>>], [priv |-> "DELETE", cols |-> <<>>]>>
                                     ELSE <<[priv |-> "SELECT", cols |-> <<>>]>>]]

Objects == {"T", "C2", "I", "V2", "V1", "S", "G"}

Variants(o) ==
  CASE o = "T" -> 0..4
    [] o = "C2" -> 0..3
    [] o = "I" -> 0..4
    [] o = "V2" -> 0..2
    [] o = "V1" -> 0..2
    [] o = "S" -> 0..3
    [] o = "G" -> 0..2

\* the DDL text of one side, as its list of parsed statements
DDLsOf(cfg) ==
  (IF cfg["T"] = 1 THEN <<>> ELSE <<CreateTableT1(cfg["T"], cfg["C2"])>>)
  \o (IF cfg["I"] = 1 THEN <<>> ELSE <<CreateIndexIDX1(cfg["I"])>>)
  \o (IF cfg["V2"] = 1 THEN <<>> ELSE <<CreateViewV2(cfg["V2"])>>)
  \o (IF cfg["V1"] = 1 THEN <<>> ELSE <<CreateViewV1(cfg["V1"])>>)
  \o (IF cfg["S"] = 1 THEN <<>> ELSE <<CreateChangeStreamS1(cfg["S"])>>)
  \o (IF cfg["G"] = 1 THEN <<>> ELSE <<GrantOnT1(cfg["G"])>>)

Reference == [o \in Objects |-> 0]

Edits(cfg) == Cardinality({o \in Objects : cfg[o] # 0})

\* one object of the reference schema replaced by one of its variants
SingleEdits == {e \in Objects \X (1..4) : e[2] \in Variants(e[1])}

RECURSIVE ConfigsUpTo(_)
\* the configurations that differ from the reference in at most k objects
ConfigsUpTo(k) ==
  IF k = 0 THEN {Reference}
  ELSE LET fewer == ConfigsUpTo(k - 1)
       IN fewer \cup {[cfg EXCEPT ![e[1]] = e[2]] : cfg \in fewer, e \in SingleEdits}

\* the schemas a side may hold: the reference schema changed in at most
\* MaxEdits objects
Configs == ConfigsUpTo(MaxEdits)

(***************************************************************************)
(* Migration states and operations.                                        *)
(***************************************************************************)
migrationKindUndefined == "undefined"

migrationKindNone == "none"

migrationKindAdd == "add"

migrationKindAlter == "alter"

migrationKindDrop == "drop"

migrationKindDropAndAdd == "drop_and_add"

operationKindAdd == "add"

operationKindAlter == "alter"

operationKindDrop == "drop"

\* a definition held by a state is a reference into base or target: the
\* identifier, or "" for nil
BaseOf(s) == IF s.base = "" THEN NoDef ELSE base[s.base]

TargetOf(s) == IF s.target = "" THEN NoDef ELSE target[s.target]

Ref(d) == IF IsNil(d) THEN "" ELSE d.id

newOperation(def, kind, ddl) ==
  [id |-> def.id, kind |-> kind, ddl |-> ddl, dependsOn |-> DependsOn(def)]

\* an emitted statement: its form, the name or clause it carries, and for
\* GRANT / REVOKE the privilege list
DDL(op, arg) == [op |-> op, arg |-> arg, privs |-> <<>>]

PrivilegeDDL(op, privs) == [op |-> op, arg |-> "", privs |-> privs]

newMigrationState(id, b, t, kind) ==
  [id |-> id, base |-> Ref(b), target |-> Ref(t), kind |-> kind, ops |-> <<>>]

RECURSIVE AlterOps(_, _)
AlterOps(def, ddls) ==
  IF ddls = <<>> THEN <<>>
  ELSE <<newOperation(def, operationKindAlter, Head(ddls))>> \o AlterOps(def, Tail(ddls))

newAlterState(b, t, ddls) ==
  [id |-> t.id, base |-> Ref(b), target |-> Ref(t), kind |-> migrationKindAlter,
   ops |-> AlterOps(t, ddls)]

newDropAndAddState(b, t) == newMigrationState(t.id, b, t, migrationKindDropAndAdd)

updateKind(ms, kind, ops) == [ms EXCEPT !.kind = kind, !.ops = ops]

\* migrationState.definition()
DefinitionOf(ms) == IF ms.target # "" THEN TargetOf(ms) ELSE BaseOf(ms)

\* the zero migrationState a lookup of an unknown identifier returns
ZeroState == [id |-> "", base |-> "", target |-> "", kind |-> "", ops |-> <<>>]

(***************************************************************************)
(* The planner: m is the migration, [states, dependOn, crashed].           *)
(***************************************************************************)
\* definition registered as receiver for an identifier: the target's, else the base's
Receiver(id) == IF Has(target, id) THEN target[id] ELSE base[id]

kind(m, id) == m.states[id].kind

Panic(m, why) == IF m.crashed = "" THEN [m EXCEPT !.crashed = why] ELSE m

RECURSIVE updateState(_, _, _)
RECURSIVE NotifyReceivers(_, _, _, _)
RECURSIVE onDependencyChange(_, _, _, _, _)

\* a column that keeps a plan it already has
ColumnOnDependencyChange_IfUndefined(me, dependency, m, fuel) ==
  IF DefinitionOf(dependency).kind = "table"
  THEN IF dependency.kind \in {migrationKindAdd, migrationKindDropAndAdd, migrationKindDrop}
          /\ me.kind = migrationKindUndefined
       THEN updateState(m, updateKind(me, migrationKindNone, <<>>), fuel)
       ELSE m
  ELSE Panic(m, "unexpected dependOn type on column")

\* a column that follows its table only when the table is recreated
ColumnOnDependencyChange_OnRecreate(me, dependency, m, fuel) ==
  IF DefinitionOf(dependency).kind = "table"
  THEN IF dependency.kind = migrationKindDropAndAdd
       THEN updateState(m, updateKind(me, migrationKindNone, <<>>), fuel)
       ELSE m
  ELSE Panic(m, "unexpected dependOn type on column")

\* a column that stays planned when its table is dropped
ColumnOnDependencyChange_NotOnDrop(me, dependency, m, fuel) ==
  IF DefinitionOf(dependency).kind = "table"
  THEN IF dependency.kind \in {migrationKindAdd, migrationKindDropAndAdd}
       THEN updateState(m, updateKind(me, migrationKindNone, <<>>), fuel)
       ELSE m
  ELSE Panic(m, "unexpected dependOn type on column")

\* column.onDependencyChange
ColumnOnDependencyChange(me, dependency, m, fuel) ==
  IF DefinitionOf(dependency).kind = "table"
  THEN IF dependency.kind \in {migrationKindAdd, migrationKindDropAndAdd, migrationKindDrop}
       THEN updateState(m, updateKind(me, migrationKindNone, <<>>), fuel)
       ELSE m
  ELSE Panic(m, "unexpected dependOn type on column")

\* an index that keeps a plan it already has
IndexOnDependencyChange_IfUndefined(me, dependency, m, fuel) ==
  IF DefinitionOf(dependency).kind \in {"column", "table", "schema"}
  THEN IF dependency.kind = migrationKindDropAndAdd /\ me.kind = migrationKindUndefined
       THEN updateState(m, updateKind(me, migrationKindDropAndAdd, <<>>), fuel)
       ELSE m
  ELSE Panic(m, "unexpected dependOn type on index")

\* index.onDependencyChange
IndexOnDependencyChange(me, dependency, m, fuel) ==
  IF DefinitionOf(dependency).kind \in {"column", "table", "schema"}
  THEN IF dependency.kind = migrationKindDropAndAdd
       THEN updateState(m, updateKind(me, migrationKindDropAndAdd, <<>>), fuel)
       ELSE m
  ELSE Panic(m, "unexpected dependOn type on index")

\* a view that keeps its plan when a dependency is recreated
ViewOnDependencyChange_Never(me, dependency, m, fuel) ==
  IF DefinitionOf(dependency).kind \in {"column", "table", "view"}
  THEN m
  ELSE Panic(m, "unexpected dependOn type on view")

\* view.onDependencyChange
ViewOnDependencyChange(me, dependency, m, fuel) ==
  IF DefinitionOf(dependency).kind \in {"column", "table", "view"}
  THEN IF dependency.kind = migrationKindDropAndAdd
       THEN updateState(m, updateKind(me, migrationKindDropAndAdd, <<>>), fuel)
       ELSE m
  ELSE Panic(m, "unexpected dependOn type on view")

\* the FOR clause of a change stream, as written in SET FOR
ForClause(node) == IF node.forAll THEN "ALL" ELSE "T1"

\* a change stream whose two cascade statements are both of kind Alter
ChangeStreamOnDependencyChange_AsAlter(cs, me, dependency, m, fuel) ==
  IF DefinitionOf(dependency).kind \in {"column", "table"}
  THEN IF dependency.kind = migrationKindDropAndAdd
       THEN IF cs.node.hasFor /\ cs.node.forAll
            THEN m
            ELSE updateState(m,
                   updateKind(me, migrationKindAlter,
                     << newOperation(DefinitionOf(me), operationKindAlter, DDL("AlterChangeStreamDropForAll", "")),
                        newOperation(DefinitionOf(me), operationKindAlter, DDL("AlterChangeStreamSetFor", ForClause(cs.node))) >>),
                   fuel)
       ELSE m
  ELSE Panic(m, "unexpected dependOn type on change stream")

\* changeStream.onDependencyChange; cs is the receiver's definition
ChangeStreamOnDependencyChange(cs, me, dependency, m, fuel) ==
  IF DefinitionOf(dependency).kind \in {"column", "table"}
  THEN IF dependency.kind = migrationKindDropAndAdd
       THEN IF cs.node.hasFor /\ cs.node.forAll
            THEN m
            ELSE updateState(m,
                   updateKind(me, migrationKindAlter,
                     << newOperation(DefinitionOf(me), operationKindDrop, DDL("AlterChangeStreamDropForAll", "")),
                        newOperation(DefinitionOf(me), operationKindAdd, DDL("AlterChangeStreamSetFor", ForClause(cs.node))) >>),
                   fuel)
       ELSE m
  ELSE Panic(m, "unexpected dependOn type on change stream")

\* grant.onDependencyChange
GrantOnDependencyChange(me, dependency, m, fuel) ==
  IF DefinitionOf(dependency).kind \in {"role", "table", "column", "view", "changeStream"}
  THEN IF dependency.kind = migrationKindDropAndAdd
       THEN updateState(m, updateKind(me, migrationKindDropAndAdd, <<>>), fuel)
       ELSE m
  ELSE Panic(m, "unexpected dependOn type on grant")

onDependencyChange(receiver, me, dependency, m, fuel) ==
  IF m.crashed # "" THEN m
  ELSE CASE receiver.kind = "table" -> m
         [] receiver.kind = "column" -> ColumnOnDependencyChange(me, dependency, m, fuel)
         [] receiver.kind = "index" -> IndexOnDependencyChange(me, dependency, m, fuel)
         [] receiver.kind = "view" -> ViewOnDependencyChange(me, dependency, m, fuel)
         [] receiver.kind = "changeStream" -> ChangeStreamOnDependencyChange(receiver, me, dependency, m, fuel)
         [] receiver.kind = "grant" -> GrantOnDependencyChange(me, dependency, m, fuel)
         [] receiver.kind = "database" -> m
         [] receiver.kind = "sequence" -> m

NotifyReceivers(m, s, receivers, fuel) ==
  IF receivers = <<>> \/ m.crashed # "" THEN m
  ELSE NotifyReceivers(
         onDependencyChange(Receiver(Head(receivers)), m.states[Head(receivers)], s, m, fuel),
         s, Tail(receivers), fuel)

\* migration.updateState; fuel counts the nested calls still allowed
updateState(m, s, fuel) ==
  IF fuel = 0 THEN Panic(m, "stack overflow")
  ELSE NotifyReceivers([m EXCEPT !.states[s.id] = s], s, m.dependOn[s.id], fuel - 1)

\* an update that overwrites the plan the identifier has
updateStateIfUndefined_Always(m, s) == updateState(m, s, MaxDepth)

\* migration.updateStateIfUndefined
updateStateIfUndefined(m, s) ==
  IF kind(m, s.id) # migrationKindUndefined THEN m ELSE updateState(m, s, MaxDepth)

(***************************************************************************)
(* add() and drop() of each kind.                                          *)
(***************************************************************************)
add(d) ==
  CASE d.kind = "table" -> DDL("CreateTable", d.node.name)
    [] d.kind = "column" -> DDL("AlterTableAddColumn", d.node.name)
    [] d.kind = "index" -> DDL("CreateIndex", d.node.name)
    [] d.kind = "view" -> DDL("CreateView", d.node.name)
    [] d.kind = "changeStream" -> DDL("CreateChangeStream", d.node.name)
    [] d.kind = "grant" -> PrivilegeDDL("Grant", d.node.privs)
    [] d.kind = "database" -> DDL("AlterDatabase", d.node.name)
    [] d.kind = "sequence" -> DDL("CreateSequence", d.node.name)

\* none[ast.DDL](): no statement
NoDDL == DDL("", "")

\* a drop statement for every kind, database included
drop_DatabaseToo(d) ==
  CASE d.kind = "table" -> DDL("DropTable", d.node.name)
    [] d.kind = "column" -> DDL("AlterTableDropColumn", d.node.name)
    [] d.kind = "index" -> DDL("DropIndex", d.node.name)
    [] d.kind = "view" -> DDL("DropView", d.node.name)
    [] d.kind = "changeStream" -> DDL("DropChangeStream", d.node.name)
    [] d.kind = "grant" -> PrivilegeDDL("Revoke", d.node.privs)
    [] d.kind = "database" -> DDL("DropDatabase", d.node.name)
    [] d.kind = "sequence" -> DDL("DropSequence", d.node.name)

\* the optional drop statement of each kind; only database has none
drop(d) ==
  CASE d.kind = "table" -> DDL("DropTable", d.node.name)
    [] d.kind = "column" -> DDL("AlterTableDropColumn", d.node.name)
    [] d.kind = "index" -> DDL("DropIndex", d.node.name)
    [] d.kind = "view" -> DDL("DropView", d.node.name)
    [] d.kind = "changeStream" -> DDL("DropChangeStream", d.node.name)
    [] d.kind = "grant" -> PrivilegeDDL("Revoke", d.node.privs)
    [] d.kind = "database" -> NoDDL
    [] d.kind = "sequence" -> DDL("DropSequence", d.node.name)

(***************************************************************************)
(* alter() of each kind.  Each yields the set of planners the call can     *)
(* leave: a rule that ranges over a Go map composes its DDLs in any order. *)
(***************************************************************************)
RECURSIVE SynonymDDLs(_, _)
SynonymDDLs(op, names) ==
  IF names = <<>> THEN <<>>
  ELSE <<DDL(op, Head(names))>> \o SynonymDDLs(op, Tail(names))

\* the named constraints of a table, as the map from name to constraint that
\* the rule builds: a later constraint of the same name replaces an earlier one
ConstraintNames(cons) == {cons[i].name : i \in 1..Len(cons)} \ {""}

ConstraintOf(cons, name) ==
  cons[CHOOSE i \in 1..Len(cons) :
         cons[i].name = name /\ \A j \in (i + 1)..Len(cons) : cons[j].name # name]

RECURSIVE ConstraintDDLs(_, _)
ConstraintDDLs(op, names) ==
  IF names = <<>> THEN <<>>
  ELSE <<DDL(op, Head(names))>> \o ConstraintDDLs(op, Tail(names))

RECURSIVE RecreateConstraintDDLs(_)
\* DROP CONSTRAINT and ADD CONSTRAINT for each name, appended as a pair
RecreateConstraintDDLs(names) ==
  IF names = <<>> THEN <<>>
  ELSE <<DDL("AlterTableDropConstraint", Head(names)), DDL("AlterTableAddTableConstraint", Head(names))>>
         \o RecreateConstraintDDLs(Tail(names))

\* the statements table.alter composes for the table constraints, in every
\* order the three ranges over the two maps can take
TableConstraintDDLs(b, t) ==
  IF b.node.cons = t.node.cons THEN {<<>>}
  ELSE LET baseConstraints == ConstraintNames(b.node.cons)
           targetConstraints == ConstraintNames(t.node.cons)
           changed == {n \in baseConstraints \cap targetConstraints :
                         ConstraintOf(b.node.cons, n) # ConstraintOf(t.node.cons, n)}
       IN {ConstraintDDLs("AlterTableAddTableConstraint", a)
             \o ConstraintDDLs("AlterTableDropConstraint", d)
             \o RecreateConstraintDDLs(c) :
             a \in Orderings(targetConstraints \ baseConstraints),
             d \in Orderings(baseConstraints \ targetConstraints),
             c \in Orderings(changed)}

\* a table.alter that plans Alter also when it composed no statement
TableAlter_NoFallback(b, t, m) ==
  IF b.node.pk # t.node.pk
  THEN {updateStateIfUndefined(m, newDropAndAddState(b, t))}
  ELSE IF equalNode([b.node EXCEPT !.cols = <<>>], [t.node EXCEPT !.cols = <<>>])
  THEN {m}
  ELSE LET rdp == IF b.node.rdp = t.node.rdp THEN <<>>
                  ELSE IF b.node.rdp = 0 THEN <<DDL("AlterTableAddRowDeletionPolicy", "")>>
                  ELSE IF t.node.rdp = 0 THEN <<DDL("AlterTableDropRowDeletionPolicy", "")>>
                  ELSE <<DDL("AlterTableReplaceRowDeletionPolicy", "")>>
           baseSynonyms == SeqToSet(b.node.syn)
           targetSynonyms == SeqToSet(t.node.syn)
           syns == IF b.node.syn = t.node.syn THEN {<<>>}
                   ELSE {SynonymDDLs("AlterTableDropSynonym", d) \o SynonymDDLs("AlterTableAddSynonym", a) :
                           d \in Orderings(baseSynonyms \ targetSynonyms),
                           a \in Orderings(targetSynonyms \ baseSynonyms)}
       IN {updateStateIfUndefined(m, newAlterState(b, t, rdp \o sy \o tc)) :
             sy \in syns, tc \in TableConstraintDDLs(b, t)}

\* table.alter
TableAlter(b, t, m) ==
  IF b.node.pk # t.node.pk
  THEN {updateStateIfUndefined(m, newDropAndAddState(b, t))}
  ELSE IF equalNode([b.node EXCEPT !.cols = <<>>], [t.node EXCEPT !.cols = <<>>])
  THEN {m}
  ELSE LET rdp == IF b.node.rdp = t.node.rdp THEN <<>>
                  ELSE IF b.node.rdp = 0 THEN <<DDL("AlterTableAddRowDeletionPolicy", "")>>
                  ELSE IF t.node.rdp = 0 THEN <<DDL("AlterTableDropRowDeletionPolicy", "")>>
                  ELSE <<DDL("AlterTableReplaceRowDeletionPolicy", "")>>
           baseSynonyms == SeqToSet(b.node.syn)
           targetSynonyms == SeqToSet(t.node.syn)
           syns == IF b.node.syn = t.node.syn THEN {<<>>}
                   ELSE {SynonymDDLs("AlterTableDropSynonym", d) \o SynonymDDLs("AlterTableAddSynonym", a) :
                           d \in Orderings(baseSynonyms \ targetSynonyms),
                           a \in Orderings(targetSynonyms \ baseSynonyms)}
       IN {IF rdp \o sy \o tc = <<>>
           THEN updateStateIfUndefined(m, newDropAndAddState(b, t))
           ELSE updateStateIfUndefined(m, newAlterState(b, t, rdp \o sy \o tc)) :
             sy \in syns, tc \in TableConstraintDDLs(b, t)}

\* the type changes ALTER COLUMN supports, as (base, target) scalar names
AlterableTypes == {<<"STRING", "BYTES">>, <<"BYTES", "STRING">>,
                   <<"STRING", "STRING">>, <<"BYTES", "BYTES">>}

\* the statements of the branch of column.alter for two equal types
SameTypeDDLs(b, t) ==
  LET isDefault == t.node.sem.kind = "default"
      notNull == IF b.node.nn # t.node.nn /\ (t.node.sem = NoSemantics \/ isDefault)
                 THEN <<DDL("AlterTableAlterColumnType", t.node.name)>> ELSE <<>>
      defaultSet == b.node.nn # t.node.nn /\ isDefault
      options == IF b.node.options # t.node.options
                 THEN <<DDL("AlterTableAlterColumnSetOptions", t.node.name)>> ELSE <<>>
      default == IF ~defaultSet /\ b.node.sem # t.node.sem
                 THEN IF t.node.sem = NoSemantics
                      THEN <<DDL("AlterTableAlterColumnDropDefault", t.node.name)>>
                      ELSE IF isDefault
                      THEN <<DDL("AlterTableAlterColumnSetDefault", t.node.name)>>
                      ELSE <<>>
                 ELSE <<>>
  IN notNull \o options \o default

\* column.alter
ColumnAlter(b, t, m) ==
  IF kind(m, b.id) = migrationKindNone THEN {m}
  ELSE IF b.node.typ = t.node.typ
  THEN {updateStateIfUndefined(m, newAlterState(b, t, SameTypeDDLs(b, t)))}
  ELSE IF <<b.node.typ, t.node.typ>> \in AlterableTypes
          /\ t.node.sem.kind \in {"", "default"}
  THEN {updateStateIfUndefined(m, newAlterState(b, t, <<DDL("AlterTableAlterColumnType", t.node.name)>>))}
  ELSE {updateStateIfUndefined(m, newDropAndAddState(b, t))}

RECURSIVE StoredColumnDDLs(_, _)
StoredColumnDDLs(op, names) ==
  IF names = <<>> THEN <<>>
  ELSE <<DDL(op, Head(names))>> \o StoredColumnDDLs(op, Tail(names))

\* index.alter
IndexAlter(b, t, m) ==
  IF kind(m, b.id) = migrationKindNone THEN {m}
  ELSE IF equalNode([b.node EXCEPT !.storing = <<>>], [t.node EXCEPT !.storing = <<>>])
  THEN LET baseStoring == SeqToSet(b.node.storing)
           targetStoring == SeqToSet(t.node.storing)
       IN {updateStateIfUndefined(m, newAlterState(b, t,
              StoredColumnDDLs("AlterIndexAddStoredColumn", a)
                \o StoredColumnDDLs("AlterIndexDropStoredColumn", d))) :
             a \in Orderings(targetStoring \ baseStoring),
             d \in Orderings(baseStoring \ targetStoring)}
  ELSE {updateStateIfUndefined(m, newDropAndAddState(b, t))}

\* view.alter
ViewAlter(b, t, m) ==
  {updateStateIfUndefined(m, newAlterState(b, t, <<DDL("CreateOrReplaceView", t.node.name)>>))}

\* changeStream.alter
ChangeStreamAlter(b, t, m) ==
  LET for == IF [h |-> b.node.hasFor, a |-> b.node.forAll, t |-> b.node.forTables]
                  = [h |-> t.node.hasFor, a |-> t.node.forAll, t |-> t.node.forTables]
             THEN <<>>
             ELSE IF ~t.node.hasFor THEN <<DDL("AlterChangeStreamDropForAll", "")>>
             ELSE <<DDL("AlterChangeStreamSetFor", ForClause(t.node))>>
      opts == IF b.node.options = t.node.options THEN <<>>
              ELSE <<DDL("AlterChangeStreamSetOptions", "")>>
  IN IF for \o opts = <<>> THEN {m}
     ELSE {updateStateIfUndefined(m, newAlterState(b, t, for \o opts))}

\* a delta that grants every column of the target again when the columns differ
PrivilegeDelta_AllOfTarget(bp, tp, p) ==
  LET bcols == PrivilegeColumns(bp, p)
      tcols == PrivilegeColumns(tp, p)
      droppedColumns == FilterSeq(bcols, SeqToSet(bcols) \ SeqToSet(tcols))
      flagAdded == IF HasPrivilege(tp, p) /\ ~HasPrivilege(bp, p) THEN <<[priv |-> p, cols |-> <<>>]>> ELSE <<>>
      flagDropped == IF HasPrivilege(bp, p) /\ ~HasPrivilege(tp, p) THEN <<[priv |-> p, cols |-> <<>>]>> ELSE <<>>
  IN [added |-> flagAdded \o (IF bcols # tcols /\ tcols # <<>>
                              THEN <<[priv |-> p, cols |-> tcols]>> ELSE <<>>),
      dropped |-> flagDropped \o (IF bcols # tcols /\ droppedColumns # <<>>
                                  THEN <<[priv |-> p, cols |-> droppedColumns]>> ELSE <<>>)]

\* the added and the dropped entries of one privilege
PrivilegeDelta(bp, tp, p) ==
  LET bcols == PrivilegeColumns(bp, p)
      tcols == PrivilegeColumns(tp, p)
      addedColumns == FilterSeq(tcols, SeqToSet(tcols) \ SeqToSet(bcols))
      droppedColumns == FilterSeq(bcols, SeqToSet(bcols) \ SeqToSet(tcols))
      flagAdded == IF HasPrivilege(tp, p) /\ ~HasPrivilege(bp, p) THEN <<[priv |-> p, cols |-> <<>>]>> ELSE <<>>
      flagDropped == IF HasPrivilege(bp, p) /\ ~HasPrivilege(tp, p) THEN <<[priv |-> p, cols |-> <<>>]>> ELSE <<>>
  IN [added |-> flagAdded \o (IF bcols # tcols /\ addedColumns # <<>>
                              THEN <<[priv |-> p, cols |-> addedColumns]>> ELSE <<>>),
      dropped |-> flagDropped \o (IF bcols # tcols /\ droppedColumns # <<>>
                                  THEN <<[priv |-> p, cols |-> droppedColumns]>> ELSE <<>>)]

\* grant.alter, for a grant on a table
GrantAlter(b, t, m) ==
  LET sel == PrivilegeDelta(b.node.privs, t.node.privs, "SELECT")
      upd == PrivilegeDelta(b.node.privs, t.node.privs, "UPDATE")
      ins == PrivilegeDelta(b.node.privs, t.node.privs, "INSERT")
      del == PrivilegeDelta(b.node.privs, t.node.privs, "DELETE")
      added == sel.added \o upd.added \o ins.added \o del.added
      dropped == sel.dropped \o upd.dropped \o ins.dropped \o del.dropped
      ddls == (IF dropped # <<>> THEN <<PrivilegeDDL("Revoke", dropped)>> ELSE <<>>)
                \o (IF added # <<>> THEN <<PrivilegeDDL("Grant", added)>> ELSE <<>>)
  IN {updateStateIfUndefined(m, newAlterState(b, t, ddls))}

\* database.alter: the target statement again
DatabaseAlter(b, t, m) ==
  {updateStateIfUndefined(m, newAlterState(b, t, <<DDL("AlterDatabase", t.node.name)>>))}

\* sequence.alter
SequenceAlter(b, t, m) ==
  IF b.node.options # t.node.options
  THEN {updateStateIfUndefined(m, newAlterState(b, t, <<DDL("AlterSequence", t.node.name)>>))}
  ELSE {Panic(m, "unsupported sequence alternation")}

\* base.alter(target, m), dispatched on the kind
alter(b, t, m) ==
  CASE b.kind = "table" -> TableAlter(b, t, m)
    [] b.kind = "column" -> ColumnAlter(b, t, m)
    [] b.kind = "index" -> IndexAlter(b, t, m)
    [] b.kind = "view" -> ViewAlter(b, t, m)
    [] b.kind = "changeStream" -> ChangeStreamAlter(b, t, m)
    [] b.kind = "grant" -> GrantAlter(b, t, m)
    [] b.kind = "database" -> DatabaseAlter(b, t, m)
    [] b.kind = "sequence" -> SequenceAlter(b, t, m)

(***************************************************************************)
(* migrationState.operations and the orderer.                              *)
(***************************************************************************)
\* operations() dereferences a nil definition
OperationsPanics(ms) ==
  CASE ms.kind = migrationKindAdd -> ms.target = ""
    [] ms.kind = migrationKindDrop -> ms.base = ""
    [] ms.kind = migrationKindDropAndAdd -> ms.base = "" \/ ms.target = ""
    [] OTHER -> FALSE

\* the drop operation of a definition; a definition without a drop statement
\* is passed over
DropOps(def) ==
  IF drop(def) = NoDDL THEN <<>> ELSE <<newOperation(def, operationKindDrop, drop(def))>>

\* migrationState.operations
operations(ms) ==
  CASE OperationsPanics(ms) -> <<>>
    [] ms.kind = migrationKindAdd ->
         <<newOperation(TargetOf(ms), operationKindAdd, add(TargetOf(ms)))>>
    [] ms.kind = migrationKindAlter -> ms.ops
    [] ms.kind = migrationKindDrop -> DropOps(BaseOf(ms))
    [] ms.kind = migrationKindDropAndAdd ->
         DropOps(BaseOf(ms))
           \o <<newOperation(TargetOf(ms), operationKindAdd, add(TargetOf(ms)))>>
    [] OTHER -> <<>>

\* cmp.Compare on operationKind strings: "add" < "alter" < "drop"
KindRank(k) == IF k = operationKindAdd THEN 1 ELSE IF k = operationKindAlter THEN 2 ELSE 3

\* the comparison of sortOperations is negative
OpBefore(i, j) ==
  IDLess(i.id, j.id) \/ (i.id = j.id /\ KindRank(i.kind) < KindRank(j.kind))

RECURSIVE InsertOp(_, _)
\* insert op behind every element that does not sort after it
InsertOp(op, sorted) ==
  IF sorted = <<>> THEN <<op>>
  ELSE IF OpBefore(op, Head(sorted)) THEN <<op>> \o sorted
       ELSE <<Head(sorted)>> \o InsertOp(op, Tail(sorted))

RECURSIVE SortFunc(_)
\* slices.SortFunc on a short slice: insertion sort, equal elements keep their order
SortFunc(ops) ==
  IF ops = <<>> THEN <<>>
  ELSE InsertOp(ops[Len(ops)], SortFunc(SubSeq(ops, 1, Len(ops) - 1)))

RECURSIVE OpsOfKinds(_, _)
OpsOfKinds(ops, kinds) ==
  IF ops = <<>> THEN <<>>
  ELSE IF Head(ops).kind \in kinds THEN <<Head(ops)>> \o OpsOfKinds(Tail(ops), kinds)
       ELSE OpsOfKinds(Tail(ops), kinds)

\* nodeMap[id]: the last operation of the slice with that identifier, 0 if none
NodeMap(ops, id) ==
  IF \E i \in 1..Len(ops) : ops[i].id = id
  THEN CHOOSE i \in 1..Len(ops) : ops[i].id = id /\ \A j \in (i + 1)..Len(ops) : ops[j].id # id
  ELSE 0

\* a sorter to which no edge is added
EdgesOf_None(ops, deps) == <<>>

RECURSIVE EdgesOf(_, _)
\* the children of one node, in the order AddEdge was called
EdgesOf(ops, deps) ==
  IF deps = <<>> THEN <<>>
  ELSE (IF NodeMap(ops, Head(deps)) # 0 THEN <<NodeMap(ops, Head(deps))>> ELSE <<>>)
         \o EdgesOf(ops, Tail(deps))

RECURSIVE Visit(_, _, _)
RECURSIVE VisitAll(_, _, _)

\* toposort node.visit: depth-first, a node is appended after its children
Visit(ops, n, st) ==
  IF n \in st.done THEN st
  ELSE IF n \in st.visiting THEN [st EXCEPT !.cycle = TRUE]
  ELSE LET st1 == VisitAll(ops, EdgesOf(ops, ops[n].dependsOn),
                           [st EXCEPT !.visiting = @ \cup {n}])
       IN [st1 EXCEPT !.done = @ \cup {n}, !.sorted = Append(@, n)]

VisitAll(ops, ns, st) ==
  IF ns = <<>> THEN st ELSE VisitAll(ops, Tail(ns), Visit(ops, Head(ns), st))

RECURSIVE SortNodes(_, _, _)
\* toposort Sorter.Sort: every node in insertion order, with a fresh visiting set
SortNodes(ops, n, st) ==
  IF n > Len(ops) THEN st
  ELSE SortNodes(ops, n + 1, Visit(ops, n, [st EXCEPT !.visiting = {}]))

\* a sort that returns the order it has whether or not it met a cycle
topologicalSort_IgnoresCycles(ops) ==
  LET st == SortNodes(ops, 1, [done |-> {}, visiting |-> {}, sorted |-> <<>>, cycle |-> FALSE])
  IN [ok |-> TRUE, ops |-> [i \in 1..Len(st.sorted) |-> ops[st.sorted[i]]]]

\* topologicalSort: [ok, ops]
topologicalSort(ops) ==
  LET st == SortNodes(ops, 1, [done |-> {}, visiting |-> {}, sorted |-> <<>>, cycle |-> FALSE])
  IN [ok |-> ~st.cycle, ops |-> [i \in 1..Len(st.sorted) |-> ops[st.sorted[i]]]]

\* the slice left in its order
reverse_Kept(ops) == ops

reverse(ops) == [i \in 1..Len(ops) |-> ops[Len(ops) + 1 - i]]

\* the two sorted partitions appended the other way round
sortOperations_AddAlterFirst(ops) ==
  LET sorted == SortFunc(ops)
      sortedAddAlter == topologicalSort(OpsOfKinds(sorted, {operationKindAdd, operationKindAlter}))
      sortedDrop == topologicalSort(OpsOfKinds(sorted, {operationKindDrop}))
  IN IF ~sortedAddAlter.ok \/ ~sortedDrop.ok THEN [ok |-> FALSE, ops |-> <<>>]
     ELSE [ok |-> TRUE, ops |-> sortedAddAlter.ops \o reverse(sortedDrop.ops)]

\* sortOperations: [ok, ops]
sortOperations(ops) ==
  LET sorted == SortFunc(ops)
      sortedAddAlter == topologicalSort(OpsOfKinds(sorted, {operationKindAdd, operationKindAlter}))
      sortedDrop == topologicalSort(OpsOfKinds(sorted, {operationKindDrop}))
  IN IF ~sortedAddAlter.ok \/ ~sortedDrop.ok THEN [ok |-> FALSE, ops |-> <<>>]
     ELSE [ok |-> TRUE, ops |-> reverse(sortedDrop.ops) \o sortedAddAlter.ops]

RECURSIVE Flatten(_, _)
\* the operations of the states, ranging over the state map in the given order
Flatten(sts, order) ==
  IF order = <<>> THEN <<>>
  ELSE operations(sts[Head(order)]) \o Flatten(sts, Tail(order))

(***************************************************************************)
(* The run of Diff on one pair of sides.                                   *)
(***************************************************************************)
\* the orders in which a range over a map of the run visits its keys
IterOrders == {IdOrder, [i \in 1..Len(IdOrder) |-> IdOrder[Len(IdOrder) + 1 - i]]}

M == [states |-> states, dependOn |-> dependOn, crashed |-> crashed]

RECURSIVE Register(_, _, _)
\* initializeState, for the receivers in the order given: each is appended
\* to dependOn of every identifier its definition depends on
Register(dep, receivers, id) ==
  IF receivers = <<>> THEN <<>>
  ELSE LET r == Head(receivers)
           n == Cardinality({i \in 1..Len(DependsOn(Receiver(r))) : DependsOn(Receiver(r))[i] = id})
       IN [i \in 1..n |-> r] \o Register(dep, Tail(receivers), id)

\* the text of one side: nothing, or the statements of a configuration
TextOf(empty, cfg) == IF empty THEN <<>> ELSE DDLsOf(cfg)

\* what a side costs: its edits of the reference schema; an empty side costs one
CostOf(empty, cfg) == IF empty THEN 1 ELSE Edits(cfg)

\* Diff before it has read its inputs
Start ==
  /\ base = [i \in Ids |-> NoDef]
  /\ target = [i \in Ids |-> NoDef]
  /\ phase = "read"
  /\ visited = {}
  /\ states = [i \in Ids |-> ZeroState]
  /\ dependOn = [i \in Ids |-> <<>>]
  /\ crashed = ""
  /\ output = <<>>
  /\ err = ""

\* the schema family: two changed schemas of at most MaxEdits edits together,
\* or one changed schema against itself
Init ==
  /\ \E cb \in Configs, ct \in Configs, eb \in BOOLEAN, et \in BOOLEAN :
       /\ eb => cb = Reference
       /\ et => ct = Reference
       /\ \/ CostOf(eb, cb) + CostOf(et, ct) <= MaxEdits
          \/ cb = ct /\ eb = et
       /\ input = [base |-> TextOf(eb, cb), target |-> TextOf(et, ct),
                   errorOnUnsupportedDDL |-> FALSE]
  /\ Start

\* the statement family: short texts over a few statements, among them two
\* statements of one table, views that select from each other or from
\* themselves, ALTER DATABASE, a statement newDefinitions has no case for,
\* and a part that is no DDL statement
AlterDatabaseD1 ==
  [stmt |-> "AlterDatabase", node |-> [NoNode EXCEPT !.name = "D1", !.options = 1]]

AlterIndexIDX1 ==
  [stmt |-> "AlterIndex", node |-> [NoNode EXCEPT !.name = "IDX1", !.storing = <<"C2">>]]

SyntaxError == [stmt |-> "SyntaxError", node |-> NoNode]

\* CREATE VIEW V2 ... FROM T1, V2
CreateViewV2FromItself ==
  [stmt |-> "CreateView",
   node |-> [NoNode EXCEPT !.name = "V2", !.from = <<"T1", "V2">>, !.query = 1]]

\* CREATE VIEW V2 ... FROM V1
CreateViewV2FromV1 ==
  [stmt |-> "CreateView",
   node |-> [NoNode EXCEPT !.name = "V2", !.from = <<"V1">>, !.query = 1]]

StatementPool ==
  {CreateTableT1(0, 1), CreateTableT1(2, 1), CreateViewV1(0), CreateViewV2FromV1,
   CreateViewV2FromItself, GrantOnT1(0), AlterDatabaseD1, AlterIndexIDX1, SyntaxError}

RECURSIVE Texts(_)
\* the texts of n statements
Texts(n) ==
  IF n = 0 THEN {<<>>}
  ELSE {Append(text, ddl) : text \in Texts(n - 1), ddl \in StatementPool}

\* two texts of at most MaxStatements statements together, and the option
InitStatements ==
  /\ \E nb \in 0..MaxStatements :
       \E nt \in 0..(MaxStatements - nb) :
         \E tb \in Texts(nb), tt \in Texts(nt), e \in BOOLEAN :
           input = [base |-> tb, target |-> tt, errorOnUnsupportedDDL |-> e]
  /\ Start

\* the grant family: on each side no statement or one GRANT ... ON TABLE T1
\* TO ROLE R1 of at most MaxPrivileges privileges
PrivilegePool ==
  {[priv |-> "SELECT", cols |-> <<>>], [priv |-> "SELECT", cols |-> <<"C1">>],
   [priv |-> "SELECT", cols |-> <<"C1", "C2">>], [priv |-> "UPDATE", cols |-> <<"C1">>],
   [priv |-> "DELETE", cols |-> <<>>]}

RECURSIVE PrivilegeLists(_)
\* the privilege lists of n entries
PrivilegeLists(n) ==
  IF n = 0 THEN {<<>>}
  ELSE {Append(l, p) : l \in PrivilegeLists(n - 1), p \in PrivilegePool}

GrantOnT1With(privs) ==
  [stmt |-> "Grant", node |-> [NoNode EXCEPT !.roles = <<"R1">>, !.table = "T1", !.privs = privs]]

GrantText(privs) == IF privs = <<>> THEN <<>> ELSE <<GrantOnT1With(privs)>>

InitGrants ==
  /\ \E nb \in 0..MaxPrivileges, nt \in 0..MaxPrivileges :
       \E pb \in PrivilegeLists(nb), pt \in PrivilegeLists(nt) :
         input = [base |-> GrantText(pb), target |-> GrantText(pt),
                  errorOnUnsupportedDDL |-> FALSE]
  /\ Start

\* the grant-statement family: on each side at most MaxGrantStatements GRANT
\* ... ON TABLE T1 statements out of a few, to one role or to both
GrantOnT1To(roles, privs) ==
  [stmt |-> "Grant", node |-> [NoNode EXCEPT !.roles = roles, !.table = "T1", !.privs = privs]]

GrantStatementPool ==
  {GrantOnT1To(<<"R1">>, <<[priv |-> "SELECT", cols |-> <<"C1", "C2">>],
                           [priv |-> "SELECT", cols |-> <<>>], [priv |-> "DELETE", cols |-> <<>>]>>),
   GrantOnT1To(<<"R1">>, <<[priv |-> "SELECT", cols |-> <<"C1">>]>>),
   GrantOnT1To(<<"R1">>, <<[priv |-> "DELETE", cols |-> <<>>], [priv |-> "SELECT", cols |-> <<>>],
                           [priv |-> "SELECT", cols |-> <<"C2">>]>>),
   GrantOnT1To(<<"R1", "R2">>, <<[priv |-> "SELECT", cols |-> <<"C1">>]>>),
   GrantOnT1To(<<"R2">>, <<[priv |-> "SELECT", cols |-> <<"C1">>]>>)}

RECURSIVE GrantTexts(_)
\* the texts of n GRANT statements
GrantTexts(n) ==
  IF n = 0 THEN {<<>>}
  ELSE {Append(text, g) : text \in GrantTexts(n - 1), g \in GrantStatementPool}

InitGrantStatements ==
  /\ \E nb \in 0..MaxGrantStatements, nt \in 0..MaxGrantStatements :
       \E tb \in GrantTexts(nb), tt \in GrantTexts(nt) :
         input = [base |-> tb, target |-> tt, errorOnUnsupportedDDL |-> FALSE]
  /\ Start

\* the table family: table T1 on both sides, each part of its statement taken
\* from a few (base, target) pairs, next to an index and a grant on the table
\* that stand on one side or on both
Constraint(name, body) == [name |-> name, body |-> body]

CreateTableT1With(pk, rdp, syn, cons, cv) ==
  [stmt |-> "CreateTable",
   node |-> [NoNode EXCEPT !.name = "T1", !.pk = pk, !.rdp = rdp, !.syn = syn, !.cons = cons,
                           !.cols = <<ColumnC1, ColumnC2(cv)>>]]

PrimaryKeyPairs == {<<1, 1>>, <<1, 2>>}

RowDeletionPolicyPairs == {<<0, 0>>, <<0, 1>>, <<1, 0>>, <<1, 2>>}

SynonymPairs ==
  {<< <<>>, <<>> >>, << <<"A">>, <<>> >>, << <<>>, <<"A">> >>, << <<"A">>, <<"B">> >>,
   << <<"A", "B">>, <<"B", "A">> >>}

\* FK1 and CK1 are named constraints; the constraint named "" has no name
TableConstraintPairs ==
  {<< <<>>, <<>> >>,
   << <<Constraint("FK1", 1)>>, <<Constraint("FK1", 2)>> >>,
   << <<Constraint("FK1", 1)>>, <<>> >>,
   << <<>>, <<Constraint("FK1", 1)>> >>,
   << <<Constraint("FK1", 1)>>, <<Constraint("CK1", 1)>> >>,
   << <<Constraint("FK1", 1), Constraint("CK1", 1)>>, <<Constraint("FK1", 2), Constraint("CK1", 2)>> >>,
   << <<Constraint("", 1)>>, <<Constraint("", 2)>> >>}

ColumnPairs == {<<0, 0>>, <<0, 2>>}

DependentPairs ==
  {<< <<>>, <<>> >>,
   << <<CreateIndexIDX1(0)>>, <<CreateIndexIDX1(0), GrantOnT1(0)>> >>,
   << <<CreateIndexIDX1(0), GrantOnT1(0)>>, <<GrantOnT1(2)>> >>}

InitTables ==
  /\ \E pk \in PrimaryKeyPairs, rdp \in RowDeletionPolicyPairs, syn \in SynonymPairs,
        tc \in TableConstraintPairs, cv \in ColumnPairs, dep \in DependentPairs :
       input = [base |-> <<CreateTableT1With(pk[1], rdp[1], syn[1], tc[1], cv[1])>> \o dep[1],
                target |-> <<CreateTableT1With(pk[2], rdp[2], syn[2], tc[2], cv[2])>> \o dep[2],
                errorOnUnsupportedDDL |-> FALSE]
  /\ Start

\* the column family: table T1 with column C2 absent or written with one of
\* three types, NOT NULL or not, no default, a DEFAULT or a generated
\* expression, with or without OPTIONS; or sequence SEQ1 absent or written
\* with one of two OPTIONS, with or without IF NOT EXISTS
ColumnC2With(typ, nn, sem, options) ==
  [name |-> "C2", typ |-> typ, nn |-> nn, sem |-> sem, options |-> options]

ColumnC2Texts ==
  {<<>>} \cup
  {<<ColumnC2With(typ, nn, sem, options)>> :
     typ \in {"STRING", "BYTES", "INT64"}, nn \in BOOLEAN,
     sem \in {NoSemantics, ColumnDefaultExpr(1), ColumnDefaultExpr(2),
              GeneratedColumnExpr(1), GeneratedColumnExpr(2)},
     options \in {0, 1}}

CreateTableT1Columns(cols) ==
  [stmt |-> "CreateTable",
   node |-> [NoNode EXCEPT !.name = "T1", !.pk = 1, !.cols = <<ColumnC1>> \o cols]]

CreateSequenceSEQ1(options, ifNotExists) ==
  [stmt |-> "CreateSequence",
   node |-> [NoNode EXCEPT !.name = "SEQ1", !.options = options, !.ifNotExists = ifNotExists]]

SequenceTexts ==
  {<<>>} \cup {<<CreateSequenceSEQ1(options, ine)>> : options \in {1, 2}, ine \in BOOLEAN}

InitColumns ==
  /\ \E cb \in ColumnC2Texts, ct \in ColumnC2Texts, sb \in SequenceTexts, st \in SequenceTexts :
       /\ \/ sb = <<>> /\ st = <<>>
          \/ cb = <<ColumnC2(0)>> /\ ct = <<ColumnC2(0)>>
       /\ input = [base |-> <<CreateTableT1Columns(cb)>> \o sb,
                   target |-> <<CreateTableT1Columns(ct)>> \o st,
                   errorOnUnsupportedDDL |-> FALSE]
  /\ Start

\* memefish.ParseDDLs on one text: the statements, or the error of the
\* first part that is no DDL statement
ParseDDLs(text) ==
  IF \E i \in 1..Len(text) : text[i].stmt = "SyntaxError"
  THEN [ddls |-> <<>>, err |-> "failed to parse"]
  ELSE [ddls |-> text, err |-> ""]

\* Diff up to diffDefinitions: parse both texts, build both definition sets
Build ==
  /\ phase = "read"
  /\ LET pb == ParseDDLs(input.base)
         pt == ParseDDLs(input.target)
         db == newDefinitions(pb.ddls, input.errorOnUnsupportedDDL)
         dt == newDefinitions(pt.ddls, input.errorOnUnsupportedDDL)
         e == IF pb.err # "" THEN pb.err
              ELSE IF pt.err # "" THEN pt.err
              ELSE IF db.err # "" THEN db.err
              ELSE dt.err
     IN /\ err' = e
        /\ IF e = ""
           THEN base' = db.all /\ target' = dt.all /\ phase' = "new"
           ELSE phase' = "done" /\ UNCHANGED <<base, target>>
  /\ UNCHANGED <<input, visited, states, dependOn, crashed, output>>

\* newMigration, ranging over the two sides in the orders given: every
\* identifier of either side starts undefined
newMigration(baseOrder, targetOrder) ==
  [states |-> [i \in Ids |->
                 IF Has(base, i) \/ Has(target, i)
                 THEN newMigrationState(i, base[i], target[i], migrationKindUndefined)
                 ELSE ZeroState],
   dependOn |-> [i \in Ids |->
                   Register(i, FilterSeq(baseOrder, Keys(base)), i)
                     \o Register(i, FilterSeq(targetOrder, Keys(target)), i)],
   crashed |-> ""]

NewMigration ==
  /\ phase = "new"
  /\ \E order \in IterOrders :
       \E m \in {newMigration(order, order)} :
         dependOn' = m.dependOn /\ states' = m.states
  /\ phase' = "drops"
  /\ UNCHANGED <<input, base, target, visited, crashed, output, err>>

\* the planner a step leaves; a panic ends the run
Planned(m) ==
  /\ states' = m.states
  /\ crashed' = m.crashed
  /\ IF m.crashed # ""
     THEN phase' = "done" /\ err' = "panic"
     ELSE UNCHANGED <<phase, err>>

\* one iteration of migration.drops that passes the guard
Drops ==
  /\ phase = "drops"
  /\ \E id \in (Keys(base) \ Keys(target)) \ visited :
       /\ \E m \in {updateStateIfUndefined(M,
                        newMigrationState(id, base[id], NoDef, migrationKindDrop))} : Planned(m)
       /\ visited' = visited \cup {id}
  /\ UNCHANGED <<input, base, target, dependOn, output>>

\* the loop body of migration.alters without the comparison of the nodes
NeedsAlter_Always(id) == Has(target, id) /\ Has(base, id)

\* the guards of the loop body of migration.alters
NeedsAlter(id) ==
  Has(target, id) /\ Has(base, id) /\ ~equalNode(base[id].node, target[id].node)

\* one iteration of migration.alters that passes the guards
Alters ==
  /\ phase = "alters"
  /\ \E id \in Ids \ visited :
       /\ NeedsAlter(id)
       /\ \E m \in alter(base[id], target[id], M) : Planned(m)
       /\ visited' = visited \cup {id}
  /\ UNCHANGED <<input, base, target, dependOn, output>>

\* one iteration of migration.adds that passes the guard
Adds ==
  /\ phase = "adds"
  /\ \E id \in (Keys(target) \ Keys(base)) \ visited :
       /\ \E m \in {updateStateIfUndefined(M,
                        newMigrationState(id, NoDef, target[id], migrationKindAdd))} : Planned(m)
       /\ visited' = visited \cup {id}
  /\ UNCHANGED <<input, base, target, dependOn, output>>

\* the identifiers the loop of the current pass has still to visit
Pending ==
  CASE phase = "drops" -> (Keys(base) \ Keys(target)) \ visited
    [] phase = "alters" -> {id \in Ids \ visited : NeedsAlter(id)}
    [] phase = "adds" -> (Keys(target) \ Keys(base)) \ visited
    [] OTHER -> {}

\* diffDefinitions goes from one pass to the next
NextPass ==
  /\ phase \in {"drops", "alters", "adds"}
  /\ Pending = {}
  /\ phase' = CASE phase = "drops" -> "alters" [] phase = "alters" -> "adds" [] OTHER -> "sort"
  /\ visited' = {}
  /\ UNCHANGED <<input, base, target, states, dependOn, crashed, output, err>>

\* a Diff that writes the operations as it collects them, before sorting
SortAndEmit_WritesUnsorted ==
  /\ phase = "sort"
  /\ \E order \in IterOrders :
       IF \E i \in Ids : OperationsPanics(states[i])
       THEN err' = "panic" /\ output' = <<>>
       ELSE LET sorted == sortOperations(Flatten(states, order))
            IN IF sorted.ok
               THEN err' = "" /\ output' = sorted.ops
               ELSE err' = "dependency cycle detected" /\ output' = Flatten(states, order)
  /\ phase' = "done"
  /\ UNCHANGED <<input, base, target, visited, states, dependOn, crashed>>

\* diffDefinitions flattens and sorts; Diff writes the statements
SortAndEmit ==
  /\ phase = "sort"
  /\ \E order \in IterOrders :
       IF \E i \in Ids : OperationsPanics(states[i])
       THEN err' = "panic" /\ output' = <<>>
       ELSE LET sorted == sortOperations(Flatten(states, order))
            IN IF sorted.ok
               THEN err' = "" /\ output' = sorted.ops
               ELSE err' = "dependency cycle detected" /\ output' = <<>>
  /\ phase' = "done"
  /\ UNCHANGED <<input, base, target, visited, states, dependOn, crashed>>

RECURSIVE drops(_, _)
\* migration.drops as one loop over the base in the order given
drops(m, order) ==
  IF order = <<>> \/ m.crashed # "" THEN m
  ELSE drops(IF Has(base, Head(order)) /\ ~Has(target, Head(order))
             THEN updateStateIfUndefined(m,
                    newMigrationState(Head(order), base[Head(order)], NoDef, migrationKindDrop))
             ELSE m,
             Tail(order))

RECURSIVE alters(_, _)
\* migration.alters as one loop over the target in the order given; a rule
\* that ranges over a map of names takes one of its orders
alters(m, order) ==
  IF order = <<>> \/ m.crashed # "" THEN m
  ELSE alters(IF NeedsAlter(Head(order))
              THEN CHOOSE n \in alter(base[Head(order)], target[Head(order)], m) : TRUE
              ELSE m,
              Tail(order))

RECURSIVE adds(_, _)
\* migration.adds as one loop over the target in the order given
adds(m, order) ==
  IF order = <<>> \/ m.crashed # "" THEN m
  ELSE adds(IF Has(target, Head(order)) /\ ~Has(base, Head(order))
            THEN updateStateIfUndefined(m,
                   newMigrationState(Head(order), NoDef, target[Head(order)], migrationKindAdd))
            ELSE m,
            Tail(order))

\* diffDefinitions with every map ranged over in the order given: [output, err]
diffDefinitions(order) ==
  LET m == adds(alters(drops(newMigration(order, order), order), order), order)
      sorted == sortOperations(Flatten(m.states, order))
  IN IF m.crashed # "" \/ \E i \in Ids : OperationsPanics(m.states[i])
     THEN [output |-> <<>>, err |-> "panic"]
     ELSE IF sorted.ok THEN [output |-> sorted.ops, err |-> ""]
          ELSE [output |-> <<>>, err |-> "dependency cycle detected"]

Next == Build \/ NewMigration \/ Drops \/ Alters \/ Adds \/ NextPass \/ SortAndEmit

Spec == Init /\ [][Next]_vars

\* Diff on the grant family
SpecGrants == InitGrants /\ [][Next]_vars

\* Diff on the statement family
SpecStatements == InitStatements /\ [][Next]_vars

\* Diff on the table family
SpecTables == InitTables /\ [][Next]_vars

\* Diff on the column family
SpecColumns == InitColumns /\ [][Next]_vars

\* Diff on the grant-statement family
SpecGrantStatements == InitGrantStatements /\ [][Next]_vars

(***************************************************************************)
(* Properties of the emitted statements and of the plan.                   *)
(***************************************************************************)
\* Diff returned the statements of output
Emitted == phase = "done" /\ err = ""

\* the plan is final: every pass has run and nothing panicked
PlanFinal == phase \in {"sort", "done"} /\ crashed = ""

Positions == 1..Len(output)

IsCreate(op) ==
  op.kind = operationKindAdd
    /\ op.ddl.op \in {"CreateTable", "AlterTableAddColumn", "CreateIndex", "CreateView",
                      "CreateChangeStream", "Grant"}

\* C1: in the emitted statements every operation of kind Drop stands before
\* every operation of kind Add or Alter.
C1_DropsBeforeAddsAndAlters ==
  Emitted =>
    \A i, j \in Positions :
      (output[i].kind = operationKindDrop
         /\ output[j].kind \in {operationKindAdd, operationKindAlter}) => i < j

\* statements of all three kinds were emitted
C1_Witness ==
  /\ Emitted
  /\ \E i, j, k \in Positions :
       /\ output[i].kind = operationKindDrop
       /\ output[j].kind = operationKindAdd
       /\ output[k].kind = operationKindAlter

\* C2: of two Drop operations A and B where the definition of A declares the
\* identifier of B in its dependsOn, A is emitted before B.
C2_DependentDroppedFirst ==
  Emitted =>
    \A i, j \in Positions :
      (output[i].kind = operationKindDrop /\ output[j].kind = operationKindDrop
         /\ InSeq(output[j].id, output[i].dependsOn)) => i < j

\* a view over a view and the view under it are both dropped, and so is an
\* index together with its table
C2_Witness ==
  /\ Emitted
  /\ \E i, j \in Positions :
       /\ output[i].ddl.op = "DropView" /\ output[j].ddl.op = "DropView"
       /\ InSeq(output[j].id, output[i].dependsOn)
  /\ \E i, j \in Positions :
       /\ output[i].ddl.op = "DropIndex" /\ output[j].ddl.op = "DropTable"
       /\ InSeq(output[j].id, output[i].dependsOn)

\* C3: the statement creating an object stands before every Add or Alter
\* operation of an object whose dependsOn holds the created object's identifier.
C3_CreatedBeforeDependents ==
  Emitted =>
    \A i, j \in Positions :
      (IsCreate(output[i])
         /\ output[j].kind \in {operationKindAdd, operationKindAlter}
         /\ InSeq(output[i].id, output[j].dependsOn)) => i < j

\* a view whose identifier sorts first is created after the view it selects from
C3_Witness ==
  /\ Emitted
  /\ \E i, j \in Positions :
       /\ output[i].ddl.op = "CreateView" /\ output[j].ddl.op = "CreateView"
       /\ InSeq(output[i].id, output[j].dependsOn)
       /\ IDLess(output[j].id, output[i].id)

Both == Keys(base) \cap Keys(target)

\* the identifier is on both sides and its final plan is Drop+Add
Recreated(id) == id \in Both /\ states[id].kind = migrationKindDropAndAdd

\* the identifiers the registered definition of id depends on
DepsOf(id) == SeqToSet(DependsOn(Receiver(id))) \cap Ids

RECURSIVE DependentsOf(_)
\* the identifiers on both sides that depend on an identifier of S, directly
\* or through columns, indexes, views and grants
DependentsOf(S) ==
  LET more == {id \in Both : Receiver(id).kind \in {"column", "index", "view", "grant"}
                               /\ DepsOf(id) \cap S # {}}
  IN IF more \subseteq S THEN S ELSE DependentsOf(S \cup more)

\* the two statements the cascade attaches to a change stream
ForPair(id) ==
  << newOperation(Receiver(id), operationKindDrop, DDL("AlterChangeStreamDropForAll", "")),
     newOperation(Receiver(id), operationKindAdd,
                  DDL("AlterChangeStreamSetFor", ForClause(Receiver(id).node))) >>

WatchesSpecific(s, t) ==
  /\ s \in Keys(base) \cup Keys(target)
  /\ Receiver(s).kind = "changeStream"
  /\ ~Receiver(s).node.forAll
  /\ t \in DepsOf(s)

\* C4: when a table on both sides is planned Drop+Add, every index, view and
\* grant on both sides that depends on it or on one of its columns, directly or
\* through other such objects, is planned Drop+Add, and every change stream
\* on both sides that is not FOR ALL and watches the table holds the
\* DROP FOR ALL / SET FOR pair, in whichever order the alters pass ran.
C4_CascadeComplete ==
  PlanFinal =>
    \A t \in Ids :
      (Recreated(t) /\ Receiver(t).kind = "table") =>
        /\ \A id \in DependentsOf({t}) :
             Receiver(id).kind \in {"index", "view", "grant"}
               => states[id].kind = migrationKindDropAndAdd
        /\ \A s \in Both :
             WatchesSpecific(s, t)
               => states[s].kind = migrationKindAlter /\ states[s].ops = ForPair(s)

\* the table is recreated while the index, which differs on its own, a view over
\* a view, the grant and the change stream stand on both sides
C4_Witness ==
  /\ PlanFinal /\ phase = "done"
  /\ Recreated(TableID("T1"))
  /\ {IndexID("IDX1"), ViewID("V1"), ViewID("V2"), GrantID(RoleID("R1"), TableID("T1")),
      ChangeStreamID("S1")} \subseteq Both
  /\ NeedsAlter(IndexID("IDX1"))
  /\ WatchesSpecific(ChangeStreamID("S1"), TableID("T1"))
  /\ states[ViewID("V1")].kind = migrationKindDropAndAdd

ColumnsOfTable(t) ==
  {c \in Keys(base) \cup Keys(target) : Receiver(c).kind = "column" /\ t \in DepsOf(c)}

\* C5: when the final plan of a table is Add, Drop or Drop+Add, every column of
\* that table ends NoOp and no statement of a column is emitted.
C5_ColumnsFollowTable ==
  \A t \in Keys(base) \cup Keys(target) :
    (PlanFinal /\ Receiver(t).kind = "table"
       /\ states[t].kind \in {migrationKindAdd, migrationKindDrop, migrationKindDropAndAdd}) =>
      \A c \in ColumnsOfTable(t) :
        /\ states[c].kind = migrationKindNone
        /\ Emitted => \A i \in Positions : output[i].id # c

\* the table is recreated and one of its columns differs between the sides
C5_Witness ==
  /\ Emitted
  /\ Recreated(TableID("T1"))
  /\ NeedsAlter(ColumnID(TableID("T1"), "C2"))
  /\ states[ColumnID(TableID("T1"), "C2")].kind = migrationKindNone

\* C6: for a change stream declared FOR specific tables, when a table it
\* watches is recreated, DROP FOR ALL of the stream is emitted before the DROP
\* of the table and SET FOR with the stream's FOR clause after the CREATE of the
\* table; a stream declared FOR ALL gets no statement from the cascade.
C6_ChangeStreamAroundRecreate ==
  Emitted =>
    \A s, t \in Keys(base) \cup Keys(target) :
      (Receiver(s).kind = "changeStream" /\ Receiver(t).kind = "table"
         /\ states[t].kind = migrationKindDropAndAdd) =>
        /\ WatchesSpecific(s, t) =>
             \E i, j, k, l \in Positions :
               /\ i < j /\ j < k /\ k < l
               /\ output[i] = ForPair(s)[1]
               /\ output[j].id = t /\ output[j].ddl.op = "DropTable"
               /\ output[k].id = t /\ output[k].ddl.op = "CreateTable"
               /\ output[l] = ForPair(s)[2]
        /\ Receiver(s).node.forAll =>
             \A i \in Positions :
               output[i].id = s =>
                 ~(output[i].kind \in {operationKindDrop, operationKindAdd}
                     /\ output[i].ddl.op \in {"AlterChangeStreamDropForAll",
                                               "AlterChangeStreamSetFor"})

\* the table is recreated under a stream that watches it by name
C6_Witness ==
  /\ Emitted
  /\ Recreated(TableID("T1"))
  /\ WatchesSpecific(ChangeStreamID("S1"), TableID("T1"))
  /\ \E i \in Positions : output[i].ddl.op = "AlterChangeStreamSetFor"

\* the claim C7 makes: Diff returns on every run what it returns on the run
\* that ranges over every map in the order of the identifiers, whatever the
\* orders the maps of the passes, of the flattening and of the alter rules took.
C7_SameOutputOnEveryRun ==
  phase = "done" => [output |-> output, err |-> err] = diffDefinitions(IdOrder)

\* A schema is the definitions keyed by identifier, as base and target are.
\* the definitions of the schema that depend on the identifier, the columns of
\* a table not counted against their table
ReferencedBy(schema, id) ==
  {x \in Keys(schema) : InSeq(id, DependsOn(schema[x]))
                          /\ ~(schema[x].kind = "column" /\ schema[id].kind = "table")}

\* every dependency of the definition resolves in the schema: a name a view
\* selects from to a table or a view, any other dependency to its definition;
\* roles stand outside the schemas considered
Resolves(schema, def) ==
  IF def.kind = "view"
  THEN \A n \in SeqToSet(def.node.from) :
         \E d \in {TableID(n), ViewID(n)} \cap Ids : Has(schema, d)
  ELSE \A d \in SeqToSet(DependsOn(def)) \cap Ids : Has(schema, d)

\* a side in which every dependency resolves
ValidSchema(schema) == \A x \in Keys(schema) : Resolves(schema, schema[x])

\* the table of the schema with its columns, when nothing else refers to them
TableAndColumns(schema, id) ==
  {id} \cup {c \in Keys(schema) : schema[c].kind = "column" /\ InSeq(id, DependsOn(schema[c]))}

Failed(schema) == [ok |-> FALSE, schema |-> schema]

Applied(schema) == [ok |-> TRUE, schema |-> schema]

\* the statement of one operation applied to a schema: [ok, schema], ok
\* being false when the object itself, or one the statement refers to, is
\* missing, or when what it drops is still referred to
Execute(schema, op) ==
  LET id == op.id
      stmt == op.ddl.op
      here == Has(schema, id)
      node == schema[id].node
      set(n) == Applied([schema EXCEPT ![id].node = n])
  IN CASE stmt = "CreateTable" ->
            IF here THEN Failed(schema)
            ELSE Applied([i \in Ids |->
                            IF i \in TableAndColumns(target, id) THEN target[i] ELSE schema[i]])
       [] stmt = "DropTable" ->
            IF ~here \/ \E c \in TableAndColumns(schema, id) : ReferencedBy(schema, c) # {}
            THEN Failed(schema)
            ELSE Applied([i \in Ids |->
                            IF i \in TableAndColumns(schema, id) THEN NoDef ELSE schema[i]])
       [] stmt \in {"AlterTableAddColumn", "CreateIndex", "CreateView", "CreateChangeStream"} ->
            IF here \/ ~Resolves(schema, target[id]) THEN Failed(schema)
            ELSE Applied([schema EXCEPT ![id] = target[id]])
       [] stmt \in {"AlterTableDropColumn", "DropIndex", "DropView", "DropChangeStream"} ->
            IF ~here \/ ReferencedBy(schema, id) # {} THEN Failed(schema)
            ELSE Applied([schema EXCEPT ![id] = NoDef])
       [] stmt \in {"AlterTableAlterColumnType", "CreateOrReplaceView"} ->
            IF ~here \/ ~Resolves(schema, target[id]) THEN Failed(schema)
            ELSE Applied([schema EXCEPT ![id] = target[id]])
       [] stmt \in {"AlterTableAddRowDeletionPolicy", "AlterTableDropRowDeletionPolicy",
                    "AlterTableReplaceRowDeletionPolicy"} ->
            IF ~here THEN Failed(schema) ELSE set([node EXCEPT !.rdp = target[id].node.rdp])
       [] stmt = "AlterTableAddSynonym" ->
            IF ~here \/ InSeq(op.ddl.arg, node.syn) THEN Failed(schema)
            ELSE set([node EXCEPT !.syn = Append(@, op.ddl.arg)])
       [] stmt = "AlterTableDropSynonym" ->
            IF ~here \/ ~InSeq(op.ddl.arg, node.syn) THEN Failed(schema)
            ELSE set([node EXCEPT !.syn = FilterSeq(@, SeqToSet(@) \ {op.ddl.arg})])
       [] stmt = "AlterIndexAddStoredColumn" ->
            IF ~here \/ ~Has(schema, ColumnID(TableID(node.table), op.ddl.arg))
            THEN Failed(schema)
            ELSE set([node EXCEPT !.storing = Append(@, op.ddl.arg)])
       [] stmt = "AlterIndexDropStoredColumn" ->
            IF ~here \/ ~InSeq(op.ddl.arg, node.storing) THEN Failed(schema)
            ELSE set([node EXCEPT !.storing = FilterSeq(@, SeqToSet(@) \ {op.ddl.arg})])
       [] stmt = "AlterChangeStreamDropForAll" ->
            IF ~here THEN Failed(schema)
            ELSE set([node EXCEPT !.hasFor = FALSE, !.forAll = FALSE, !.forTables = <<>>])
       [] stmt = "AlterChangeStreamSetFor" ->
            IF ~here \/ (op.ddl.arg # "ALL" /\ ~Has(schema, TableID(op.ddl.arg)))
            THEN Failed(schema)
            ELSE set([node EXCEPT !.hasFor = TRUE, !.forAll = (op.ddl.arg = "ALL"),
                                  !.forTables = IF op.ddl.arg = "ALL" THEN <<>>
                                                ELSE <<[table |-> op.ddl.arg, cols |-> <<>>]>>])
       [] stmt = "AlterChangeStreamSetOptions" ->
            IF ~here THEN Failed(schema)
            ELSE set([node EXCEPT !.options = target[id].node.options])
       [] stmt = "Grant" ->
            IF ~Resolves(schema, target[id]) THEN Failed(schema)
            ELSE IF here
            THEN set([node EXCEPT !.privs = @ \o FilterSeq(op.ddl.privs,
                                                           SeqToSet(op.ddl.privs) \ SeqToSet(@))])
            ELSE Applied([schema EXCEPT ![id] = [target[id] EXCEPT !.node.privs = op.ddl.privs]])
       [] stmt = "Revoke" ->
            IF ~here \/ ~(SeqToSet(op.ddl.privs) \subseteq SeqToSet(node.privs))
            THEN Failed(schema)
            ELSE IF SeqToSet(node.privs) \subseteq SeqToSet(op.ddl.privs)
            THEN Applied([schema EXCEPT ![id] = NoDef])
            ELSE set([node EXCEPT !.privs = FilterSeq(@, SeqToSet(@) \ SeqToSet(op.ddl.privs))])
       [] OTHER -> Failed(schema)

RECURSIVE ExecuteAll(_, _)
\* the statements applied in order, stopping at the first that fails
ExecuteAll(schema, ops) ==
  IF ops = <<>> THEN Applied(schema)
  ELSE LET r == Execute(schema, Head(ops))
       IN IF r.ok THEN ExecuteAll(r.schema, Tail(ops)) ELSE r

\* a definition up to what the comparison of two schemas ignores: the order of
\* synonyms, stored columns and privileges, the implicit key direction, and the
\* column list of a table, which the column definitions carry
Canonical(d) ==
  [kind |-> d.kind, id |-> d.id,
   node |-> [d.node EXCEPT !.cols = <<>>, !.syn = <<>>, !.storing = <<>>, !.privs = <<>>,
                           !.keys = NormalizeKeys(@)],
   syn |-> SeqToSet(d.node.syn), storing |-> SeqToSet(d.node.storing),
   privs |-> SeqToSet(d.node.privs)]

SameSchema(x, y) == \A i \in Ids : Canonical(x[i]) = Canonical(y[i])

\* the claim C9 makes: for two sides in which every dependency resolves, the
\* emitted statements applied in order to the base yield exactly the target,
\* and none is applied while something it refers to is missing or while what
\* it drops is still referred to.
C9_OutputTurnsBaseIntoTarget ==
  (phase = "done" /\ ValidSchema(base) /\ ValidSchema(target)) =>
    /\ err = ""
    /\ ExecuteAll(base, output).ok
    /\ SameSchema(ExecuteAll(base, output).schema, target)

\* C8: for equal sides no identifier is given a plan, nothing cascades and
\* nothing is emitted.
C8_Idempotent ==
  base = target =>
    /\ \A id \in Ids : states[id].kind \in {"", migrationKindUndefined}
    /\ crashed = "" /\ err = "" /\ output = <<>>

\* Diff has returned on two equal sides of at least five objects
C8_Witness ==
  /\ base = target
  /\ phase = "done"
  /\ Cardinality({id \in Keys(base) : base[id].kind # "column"}) >= 5

C12_DatabaseNeverDropped ==
  (phase = "done" /\ Has(base, DatabaseID("D1")) /\ ~Has(target, DatabaseID("D1"))) =>
    /\ \A i \in Positions : output[i].id # DatabaseID("D1")
    /\ (\A id \in Ids \ {DatabaseID("D1")} : base[id] = target[id])
         => (err = "" /\ output = <<>>)

\* the base holds ALTER DATABASE and a table, the target neither: the table
\* is dropped
C12_Witness ==
  /\ Emitted
  /\ Has(base, DatabaseID("D1")) /\ ~Has(target, DatabaseID("D1"))
  /\ states[DatabaseID("D1")].kind = migrationKindDrop
  /\ \E i \in Positions : output[i].ddl.op = "DropTable"

\* the identifiers a statement defines
IdsOf(ddl) ==
  IF ddl.stmt \in SupportedStatements
  THEN {DefsOfDDL(ddl)[i].id : i \in 1..Len(DefsOfDDL(ddl))}
  ELSE {}

\* two statements of the text, neither a GRANT, define one identifier
HasDuplicate(text) ==
  \E i, j \in 1..Len(text) :
    /\ i < j
    /\ text[i].stmt # "Grant" /\ text[j].stmt # "Grant"
    /\ IdsOf(text[i]) \cap IdsOf(text[j]) # {}

Parses(text) == \A i \in 1..Len(text) : text[i].stmt # "SyntaxError"

HasUnsupported(text) ==
  \E i \in 1..Len(text) : text[i].stmt \notin SupportedStatements \cup {"SyntaxError"}

C13_WitnessMerged ==
  /\ Emitted
  /\ \E i, j \in 1..Len(input.base) :
       i < j /\ input.base[i].stmt = "Grant" /\ input.base[j].stmt = "Grant"

\* the text without its unsupported statements
WithoutUnsupported(text) ==
  LET keep == {i \in 1..Len(text) : text[i].stmt \in SupportedStatements \cup {"SyntaxError"}}
      nth(k) == CHOOSE i \in keep : Cardinality({j \in keep : j < i}) = k - 1
  IN [k \in 1..Cardinality(keep) |-> text[nth(k)]]

C14_WitnessError ==
  /\ phase = "done" /\ err = "unsupported DDL"
  /\ input.errorOnUnsupportedDDL
  /\ HasUnsupported(input.target)

\* the errors Diff returns
ReturnedErrors ==
  {"failed to parse", "unsupported DDL", "duplicated definition found",
   "dependency cycle detected"}

\* C15: when Diff returns an error nothing has been written, and statements
\* are written only when parsing, building, planning and ordering have all
\* succeeded.
C15_NothingWrittenOnError ==
  /\ err \in ReturnedErrors => (phase = "done" /\ output = <<>>)
  /\ output # <<>> => (phase = "done" /\ err = "" /\ crashed = "")

\* the last of the errors: the operations are planned and cannot be ordered
C15_Witness ==
  /\ phase = "done" /\ err = "dependency cycle detected"
  /\ Flatten(states, IdOrder) # <<>>
  /\ output = <<>>

\* the identifiers that an operation of ops with identifier a depends on and
\* that have an operation in ops themselves
DependenciesIn(ops, a) ==
  {b \in {ops[i].id : i \in 1..Len(ops)} :
     \E i \in 1..Len(ops) : ops[i].id = a /\ InSeq(b, ops[i].dependsOn)}

RECURSIVE ReachableIn(_, _)
\* the identifiers reachable from those of S along DependenciesIn, S included
ReachableIn(ops, S) ==
  LET more == S \cup UNION {DependenciesIn(ops, a) : a \in S}
  IN IF more = S THEN S ELSE ReachableIn(ops, more)

\* some operation of ops depends, directly or through others, on itself
HasCycle(ops) ==
  \E a \in {ops[i].id : i \in 1..Len(ops)} :
    a \in ReachableIn(ops, DependenciesIn(ops, a))

\* the operations of the plan, partitioned as sortOperations does
PlannedDrops == OpsOfKinds(Flatten(states, IdOrder), {operationKindDrop})

PlannedAddAlters ==
  OpsOfKinds(Flatten(states, IdOrder), {operationKindAdd, operationKindAlter})

\* C16: when the plan is complete and the Drop operations, or the Add and
\* Alter operations, contain a dependency cycle, Diff returns "dependency
\* cycle detected" and no statements; it returns that error in no other case.
C16_CycleIsAnError ==
  (phase = "done" /\ err \in {"", "dependency cycle detected"}) =>
    /\ (HasCycle(PlannedDrops) \/ HasCycle(PlannedAddAlters))
         => (err = "dependency cycle detected" /\ output = <<>>)
    /\ err = "dependency cycle detected"
         => (HasCycle(PlannedDrops) \/ HasCycle(PlannedAddAlters))

\* two new views that select from each other
C16_Witness ==
  /\ phase = "done" /\ err = "dependency cycle detected"
  /\ Keys(base) = {}
  /\ Has(target, ViewID("V1")) /\ Has(target, ViewID("V2"))
  /\ InSeq("V2", target[ViewID("V1")].node.from)
  /\ InSeq("V1", target[ViewID("V2")].node.from)
  /\ HasCycle(PlannedAddAlters)

\* what a privilege list grants: <<privilege, column>>, the column "" for a
\* privilege on the whole table
PrivilegeSet(privs) ==
  UNION {IF privs[i].cols = <<>> THEN {<<privs[i].priv, "">>}
         ELSE {<<privs[i].priv, privs[i].cols[k]>> : k \in 1..Len(privs[i].cols)}
         : i \in 1..Len(privs)}

\* how many <<privilege, column>> a privilege list names, repeats counted
PrivilegeCount(privs) ==
  IF privs = <<>> THEN 0
  ELSE LET n == [i \in 1..Len(privs) |-> IF privs[i].cols = <<>> THEN 1 ELSE Len(privs[i].cols)]
           sum[i \in 0..Len(privs)] == IF i = 0 THEN 0 ELSE sum[i - 1] + n[i]
       IN sum[Len(privs)]

TheGrant == GrantID(RoleID("R1"), TableID("T1"))

Revokes == {i \in Positions : output[i].ddl.op = "Revoke"}

Grants == {i \in Positions : output[i].ddl.op = "Grant"}

C18_PlanningTerminates == crashed # "stack overflow"

\* Undefined < NoOp < Alter < Add, Drop < Drop+Add
KindOrder(k) ==
  CASE k = migrationKindUndefined -> 0
    [] k = migrationKindNone -> 1
    [] k = migrationKindAlter -> 2
    [] k \in {migrationKindAdd, migrationKindDrop} -> 3
    [] k = migrationKindDropAndAdd -> 4

\* C19: no step of the planner, the cascade it starts included, leaves an
\* identifier with a kind below the one it had.
C19_KindsOnlyRise ==
  [][\A id \in Ids :
       states[id] # ZeroState
         => KindOrder(states'[id].kind) >= KindOrder(states[id].kind)]_vars

\* the same for every identifier that is no column
C19_KindsOnlyRiseButColumns ==
  [][\A id \in Ids :
       (states[id] # ZeroState /\ DefinitionOf(states[id]).kind # "column")
         => KindOrder(states'[id].kind) >= KindOrder(states[id].kind)]_vars

\* C20: a step of a pass that visits an identifier whose kind is no longer
\* Undefined leaves the whole planner as it is: the state map is unchanged
\* and no onDependencyChange has run.
C20_DefinedStateIsKept ==
  [][\A id \in Ids :
       (phase \in {"drops", "alters", "adds"} /\ id \in visited' \ visited
          /\ states[id].kind # migrationKindUndefined)
         => (states' = states /\ crashed' = crashed /\ dependOn' = dependOn)]_vars

\* the alters pass has visited column C2, whose type or nullability differs
\* between the sides, and the table it belongs to, which is recreated: the
\* column is planned NoOp by the cascade of its table
C20_Witness ==
  /\ phase = "alters"
  /\ {TableID("T1"), ColumnID(TableID("T1"), "C2")} \subseteq visited
  /\ NeedsAlter(ColumnID(TableID("T1"), "C2"))
  /\ states[TableID("T1")].kind = migrationKindDropAndAdd
  /\ states[ColumnID(TableID("T1"), "C2")].kind = migrationKindNone

\* the positions of the statements of the given form that id has in the output
StatementsOf(id, form) == {i \in Positions : output[i].id = id /\ output[i].ddl.op = form}

\* C22: a view on both sides with unequal ASTs yields exactly one CREATE OR
\* REPLACE VIEW and no DROP VIEW; but when an object it depends on ends
\* Drop+Add, it yields DROP VIEW before the DROP of that object and CREATE VIEW
\* after the CREATE of that object, and no CREATE OR REPLACE VIEW.
C22_ViewReplacedOrRecreated ==
  Emitted =>
    \A v \in Both :
      (Receiver(v).kind = "view" /\ NeedsAlter(v)) =>
        IF \E d \in DepsOf(v) : states[d].kind = migrationKindDropAndAdd
        THEN /\ StatementsOf(v, "CreateOrReplaceView") = {}
             /\ \A d \in DepsOf(v) :
                  states[d].kind = migrationKindDropAndAdd =>
                    \E i \in StatementsOf(v, "DropView"), l \in StatementsOf(v, "CreateView") :
                      \E j, k \in Positions :
                        /\ i < j /\ j < k /\ k < l
                        /\ output[j].id = d /\ output[j].kind = operationKindDrop
                        /\ output[k].id = d /\ output[k].kind = operationKindAdd
        ELSE /\ Cardinality(StatementsOf(v, "CreateOrReplaceView")) = 1
             /\ StatementsOf(v, "DropView") = {}

\* a view whose query differs stands over a table that is recreated
C22_Witness ==
  /\ Emitted
  /\ NeedsAlter(ViewID("V2"))
  /\ Recreated(TableID("T1"))
  /\ StatementsOf(ViewID("V2"), "DropView") # {}
  /\ StatementsOf(ViewID("V2"), "CreateView") # {}

\* a view whose query differs is replaced where it stands
C22_WitnessReplaced ==
  /\ Emitted
  /\ NeedsAlter(ViewID("V1"))
  /\ states[ViewID("V2")].kind # migrationKindDropAndAdd
  /\ StatementsOf(ViewID("V1"), "CreateOrReplaceView") # {}
\* the claim C26 makes: after planning every state of kind Drop+Add has a base
\* and a target definition, every state of kind Drop a base definition and
\* every state of kind Add a target definition.
C26_PlanHasItsDefinitions ==
  PlanFinal =>
    \A id \in Ids :
      /\ states[id].kind = migrationKindDropAndAdd => states[id].base # "" /\ states[id].target # ""
      /\ states[id].kind = migrationKindDrop => states[id].base # ""
      /\ states[id].kind = migrationKindAdd => states[id].target # ""
\* the claim C27 makes: an Alter statement by which an object on both sides
\* stops referencing X stands before the DROP of X: ALTER INDEX ... DROP
\* STORED COLUMN c before ALTER TABLE ... DROP COLUMN c, and a SET FOR by which
\* a change stream stops watching a table before the DROP TABLE.
C27_ReferenceRemovedBeforeDrop ==
  Emitted =>
    \A i, j \in Positions :
      /\ (output[i].ddl.op = "AlterIndexDropStoredColumn"
            /\ output[j].ddl.op = "AlterTableDropColumn"
            /\ output[j].ddl.arg = output[i].ddl.arg) => i < j
      /\ (output[i].ddl.op = "AlterChangeStreamSetFor"
            /\ output[i].kind = operationKindAlter
            /\ output[j].ddl.op = "DropTable"
            /\ InSeq(output[j].id, DependsOn(base[output[i].id]))
            /\ ~InSeq(output[j].id, DependsOn(target[output[i].id]))) => i < j
\* the claim C29 makes: when a change stream is on both sides with different
\* OPTIONS and a table it watches is recreated, the output holds the ALTER
\* CHANGE STREAM ... SET OPTIONS statement of the stream, whichever of the
\* two the alters pass visited first.
C29_SetOptionsSurvivesCascade ==
  Emitted =>
    \A s \in Both :
      (/\ Receiver(s).kind = "changeStream"
       /\ base[s].node.options # target[s].node.options
       /\ \E t \in DepsOf(s) : Receiver(t).kind = "table" /\ Recreated(t)) =>
        StatementsOf(s, "AlterChangeStreamSetOptions") # {}
\* the positions of the Alter statements of id in the output
AlterStatementsOf(id) == {i \in Positions : output[i].id = id /\ output[i].kind = operationKindAlter}

\* the claim C28 makes: when X has an Alter plan of more than one DDL and the
\* Add or Alter operation of Y declares X in dependsOn, every Alter statement
\* of X stands before the statement of Y.
C28_EveryAlterBeforeDependent ==
  Emitted =>
    \A i, j \in Positions :
      (/\ output[i].kind = operationKindAlter
       /\ Cardinality(AlterStatementsOf(output[i].id)) > 1
       /\ output[j].kind \in {operationKindAdd, operationKindAlter}
       /\ InSeq(output[i].id, output[j].dependsOn)) => i < j
RECURSIVE OperationsOf(_, _)
\* the operations of id among ops, in the order they stand there
OperationsOf(ops, id) ==
  IF ops = <<>> THEN <<>>
  ELSE (IF Head(ops).id = id THEN <<Head(ops)>> ELSE <<>>) \o OperationsOf(Tail(ops), id)

\* the claim C21 makes: the statements of one object's Alter plan stand in the
\* output in the order the alter rule composed them; for a changed named
\* constraint DROP CONSTRAINT stands before ADD CONSTRAINT of the same name,
\* and for a table grant REVOKE before GRANT.
C21_AlterPlanKeepsItsOrder ==
  Emitted =>
    /\ \A id \in Ids :
         states[id].kind = migrationKindAlter => OperationsOf(output, id) = states[id].ops
    /\ \A i, j \in Positions :
         (/\ output[i].id = output[j].id
          /\ output[i].kind = operationKindAlter /\ output[j].kind = operationKindAlter
          /\ \/ /\ output[i].ddl.op = "AlterTableDropConstraint"
                /\ output[j].ddl.op = "AlterTableAddTableConstraint"
                /\ output[i].ddl.arg = output[j].ddl.arg
             \/ output[i].ddl.op = "Revoke" /\ output[j].ddl.op = "Grant") => i < j

\* the statements table.alter has to compose for two table nodes, as a set
ExpectedTableDDLs(b, t) ==
  LET bnames == {b.cons[i].name : i \in 1..Len(b.cons)} \ {""}
      tnames == {t.cons[i].name : i \in 1..Len(t.cons)} \ {""}
      differ == {n \in bnames \cap tnames :
                   {c \in SeqToSet(b.cons) : c.name = n} # {c \in SeqToSet(t.cons) : c.name = n}}
  IN (IF b.rdp = 0 /\ t.rdp # 0 THEN {DDL("AlterTableAddRowDeletionPolicy", "")} ELSE {})
       \cup (IF b.rdp # 0 /\ t.rdp = 0 THEN {DDL("AlterTableDropRowDeletionPolicy", "")} ELSE {})
       \cup (IF b.rdp # 0 /\ t.rdp # 0 /\ b.rdp # t.rdp
             THEN {DDL("AlterTableReplaceRowDeletionPolicy", "")} ELSE {})
       \cup {DDL("AlterTableDropSynonym", n) : n \in SeqToSet(b.syn) \ SeqToSet(t.syn)}
       \cup {DDL("AlterTableAddSynonym", n) : n \in SeqToSet(t.syn) \ SeqToSet(b.syn)}
       \cup {DDL("AlterTableAddTableConstraint", n) : n \in (tnames \ bnames) \cup differ}
       \cup {DDL("AlterTableDropConstraint", n) : n \in (bnames \ tnames) \cup differ}

\* C24: for a table on both sides with unequal ASTs the plan is Drop+Add when
\* the primary keys differ; there is no table-level plan and no table-level
\* statement when the two ASTs are equal without their columns; otherwise the
\* plan is Alter with the row-deletion-policy, synonym and named-constraint
\* statements, and Drop+Add exactly when there is no such statement.
C24_TablePlan ==
  PlanFinal =>
    \A id \in Both :
      (Receiver(id).kind = "table" /\ NeedsAlter(id)) =>
        LET b == base[id].node
            t == target[id].node
            ms == states[id]
            expected == ExpectedTableDDLs(b, t)
        IN IF b.pk # t.pk THEN ms.kind = migrationKindDropAndAdd
           ELSE IF [b EXCEPT !.cols = <<>>] = [t EXCEPT !.cols = <<>>]
           THEN /\ ms.kind = migrationKindUndefined
                /\ Emitted => OperationsOf(output, id) = <<>>
           ELSE IF expected = {} THEN ms.kind = migrationKindDropAndAdd
           ELSE /\ ms.kind = migrationKindAlter
                /\ {ms.ops[i].ddl : i \in 1..Len(ms.ops)} = expected
                /\ Len(ms.ops) = Cardinality(expected)
                /\ \A i \in 1..Len(ms.ops) : ms.ops[i].kind = operationKindAlter

\* an unnamed constraint alone differs and the table is recreated
C24_Witness ==
  /\ Emitted
  /\ NeedsAlter(TableID("T1"))
  /\ base[TableID("T1")].node.pk = target[TableID("T1")].node.pk
  /\ ExpectedTableDDLs(base[TableID("T1")].node, target[TableID("T1")].node) = {}
  /\ base[TableID("T1")].node.cons # target[TableID("T1")].node.cons
  /\ Recreated(TableID("T1"))

\* a named constraint, the row deletion policy and a synonym differ at once
C24_WitnessAlter ==
  /\ Emitted
  /\ states[TableID("T1")].kind = migrationKindAlter
  /\ Len(states[TableID("T1")].ops) >= 4

\* only a column differs
C24_WitnessColumnsOnly ==
  /\ Emitted
  /\ NeedsAlter(TableID("T1"))
  /\ states[TableID("T1")].kind = migrationKindUndefined
  /\ output # <<>>
\* the claim C23 makes: when a sequence is on both sides with unequal ASTs
\* and equal OPTIONS, Diff returns an error to its caller and writes nothing.
C23_SequenceErrorIsReturned ==
  phase = "done" =>
    \A id \in Both :
      (/\ Receiver(id).kind = "sequence"
       /\ NeedsAlter(id)
       /\ base[id].node.options = target[id].node.options) =>
        crashed = "" /\ err \notin {"", "panic"} /\ output = <<>>

\* the claim C30 makes: for every column on both sides with unequal ASTs
\* whose table is not added, dropped or recreated, the output holds at least
\* one statement of that column.
C30_ColumnDifferenceIsEmitted ==
  Emitted =>
    \A c \in Both :
      (/\ Receiver(c).kind = "column"
       /\ NeedsAlter(c)
       /\ \A t \in DepsOf(c) :
            states[t].kind \notin {migrationKindAdd, migrationKindDrop, migrationKindDropAndAdd}) =>
        OperationsOf(output, c) # <<>>

RECURSIVE GrantedTo(_, _)
\* what the GRANT statements of a text grant the role on T1, as written
GrantedTo(text, r) ==
  IF text = <<>> THEN {}
  ELSE (IF InSeq(r, Head(text).node.roles) THEN PrivilegeSet(Head(text).node.privs) ELSE {})
         \cup GrantedTo(Tail(text), r)

RECURSIVE WrittenColumns(_, _)
\* the columns a privilege list names for the privilege, in the order written
WrittenColumns(privs, p) ==
  IF privs = <<>> THEN <<>>
  ELSE (IF Head(privs).priv = p THEN Head(privs).cols ELSE <<>>) \o WrittenColumns(Tail(privs), p)

RECURSIVE GrantedColumns(_, _, _)
\* the columns the statements of a text name for the role and the privilege,
\* in the order written
GrantedColumns(text, r, p) ==
  IF text = <<>> THEN <<>>
  ELSE (IF InSeq(r, Head(text).node.roles) THEN WrittenColumns(Head(text).node.privs, p) ELSE <<>>)
         \o GrantedColumns(Tail(text), r, p)

\* the statements of a text that name the role
StatementsTo(text, r) == {i \in 1..Len(text) : InSeq(r, text[i].node.roles)}

FirstIndex(s, x) == CHOOSE i \in 1..Len(s) : s[i] = x /\ \A k \in 1..(i - 1) : s[k] # x

\* the definition of one side for GRANT ... ON TABLE T1 TO ROLE r is read from
\* the statements of the text that name r
GrantDefinitionOf(defs, text, r) ==
  LET id == GrantID(RoleID(r), TableID("T1"))
  IN /\ Has(defs, id) <=> StatementsTo(text, r) # {}
     /\ Has(defs, id) =>
          /\ defs[id].node.roles = <<r>>
          /\ PrivilegeSet(defs[id].node.privs) = GrantedTo(text, r)
          /\ Cardinality(StatementsTo(text, r)) > 1 =>
               \A p \in {"SELECT", "UPDATE", "INSERT", "DELETE"} :
                 LET with == {i \in 1..Len(defs[id].node.privs) :
                                defs[id].node.privs[i].priv = p /\ defs[id].node.privs[i].cols # <<>>}
                     written == GrantedColumns(text, r, p)
                 IN /\ Cardinality(with) <= 1
                    /\ Cardinality({i \in 1..Len(defs[id].node.privs) :
                                      defs[id].node.privs[i] = [priv |-> p, cols |-> <<>>]}) <= 1
                    /\ \A i \in with :
                         LET cols == defs[id].node.privs[i].cols
                         IN /\ SeqToSet(cols) = SeqToSet(written)
                            /\ \A j, k \in 1..Len(cols) :
                                 j < k => FirstIndex(written, cols[j]) < FirstIndex(written, cols[k])

\* C25: when the two texts are read, a GRANT statement has become one
\* definition per role on its side, and
\* the definitions of one role are merged into one that holds the union of
\* the privileges, each privilege at most once bare and at most once with
\* columns, its columns without repeats in the order of their first
\* occurrence; two texts that grant each role the same privileges, in one
\* statement or in several and in any order, have the empty diff.
C25_SplitGrantsAreEqual ==
  /\ (phase = "new" /\ err = "") =>
       \A r \in {"R1", "R2"} :
         GrantDefinitionOf(base, input.base, r) /\ GrantDefinitionOf(target, input.target, r)
  /\ (phase = "done" /\ \A r \in {"R1", "R2"} : GrantedTo(input.base, r) = GrantedTo(input.target, r))
       => (err = "" /\ output = <<>>)

\* SELECT(C1, C2), SELECT, DELETE to R1 in one statement against DELETE,
\* SELECT, SELECT(C2) and then SELECT(C1): the target's two definitions are
\* merged into SELECT, SELECT(C2, C1), DELETE and the diff is empty
C25_Witness ==
  /\ Emitted /\ output = <<>>
  /\ Len(input.base) = 1 /\ Len(input.target) = 2
  /\ base[GrantID(RoleID("R1"), TableID("T1"))].node.privs
       = <<[priv |-> "SELECT", cols |-> <<"C1", "C2">>],
           [priv |-> "SELECT", cols |-> <<>>], [priv |-> "DELETE", cols |-> <<>>]>>
  /\ input.target[2].node.privs = <<[priv |-> "SELECT", cols |-> <<"C1">>]>>
  /\ target[GrantID(RoleID("R1"), TableID("T1"))].node.privs
       = <<[priv |-> "SELECT", cols |-> <<>>], [priv |-> "SELECT", cols |-> <<"C2", "C1">>],
           [priv |-> "DELETE", cols |-> <<>>]>>

\* SELECT(C1) to R1 and R2 in one statement against SELECT(C1) to R2 and
\* then SELECT(C1) to R1: each side has one definition per role and the diff
\* is empty
C25_WitnessRoles ==
  /\ Emitted /\ output = <<>>
  /\ Len(input.base) = 1 /\ Len(input.target) = 2
  /\ input.base[1].node.roles = <<"R1", "R2">>
  /\ input.target[1].node.roles = <<"R2">>
  /\ input.target[2].node.roles = <<"R1">>
  /\ \A r \in {"R1", "R2"} :
       /\ base[GrantID(RoleID(r), TableID("T1"))].node.roles = <<r>>
       /\ target[GrantID(RoleID(r), TableID("T1"))].node.roles = <<r>>
       /\ base[GrantID(RoleID(r), TableID("T1"))].node.privs
            = <<[priv |-> "SELECT", cols |-> <<"C1">>]>>

====
